---------------------------- MODULE Spec2Model ----------------------------
(***************************************************************************)
(* Model of the document-structure extraction of paper_fronted:            *)
(*   services/document_processor.py  extract_toc_from_docx and helpers     *)
(*   services/docx2html.py           Docx2HtmlConverter                    *)
(*                                                                         *)
(* A text is a sequence of characters, one string per character.  SANY     *)
(* reads ASCII strings only, so a CJK character is written by an ASCII     *)
(* name:                                                                   *)
(*   DI 第  ZHANG 章  JIE 节  YI 一  ER 二  SAN 三  SI 四  WU 五  LIU 六      *)
(*   QI 七  BA 八  JIU 九  SHI 十  XU 绪  LUN 论  YIN 引  YAN 言  MU 目       *)
(*   LU 录  FANG 方  FA 法  BEI 背  JING 景  SHI2 实  YAN4 验  LOU 楼        *)
(*   JIE2 结  GUO 果  ZONG 总  ZE 则  YAN1 研  JIU1 究  DI4 地  ZHI3 址       *)
(*   XING 姓  MING 名  DIAN 电  HUA 话  YOU 邮  XIANG 箱  XUE 学  HAO 号      *)
(*   ZHI 指  DAO 导  JIAO 教  SHI1 师  JIAN 简  JIE4 介  GAI 概  SHU 述       *)
(*   FEN 分  XI 析  TAO 讨  CAN 参  KAO 考  WEN 文  XIAN 献  ZHI4 致         *)
(*   XIE 谢  BIAO 标  TI 题                                                 *)
(*   FWCOLON ：  FWCOMMA ，  FWSTOP 。  FWSEMI ；  DUN 、  FWQM ？            *)
(* ASCII characters stand for themselves.                                  *)
(***************************************************************************)
EXTENDS Integers, Sequences, FiniteSets, TLC

VARIABLES
    doc,    \* extract_toc_from_docx: the package handed in (paragraph stream)
    toc,    \* extract_toc_from_docx: its local variables and position
    std,    \* standardize_chapter_name applied once and twice to a text
    tex,    \* Docx2HtmlConverter._preprocess_latex applied to a fragment
    pkg,    \* convert_docx_to_html: the package handed in (blocks, rels)
    conv,   \* Docx2HtmlConverter: stats, processed_image_ids, html_content
    math,   \* OmmlToLatexConverter.omml_to_latex applied to a math element
    jobs,   \* two calls that run at the same time, each with its own locals
    head,   \* extract_toc_from_docx: the heading test of one paragraph
    session, \* st.session_state and the page that is rendered
    calls   \* convert_element: the calls that have not returned

vars == <<doc, toc, std, tex, pkg, conv, math, jobs, head, session, calls>>

---------------------------------------------------------------------------
(* Characters and character classes of Python's re on str patterns.        *)

Digits == {"0", "1", "2", "3", "4", "5", "6", "7", "8", "9"}

\* [一二三四五六七八九十]
CnNumerals == {"YI", "ER", "SAN", "SI", "WU", "LIU", "QI", "BA", "JIU", "SHI"}

\* [一二三四五六七八九十\d]
ChapterNumerals == CnNumerals \cup Digits

\* \s
Whitespace == {" ", "\t", "\n"}

\* [：:]
Colons == {"FWCOLON", ":"}

\* [，。：；、,\.;:!？?!]  (document_processor.py line 261)
Punctuation ==
    {"FWCOMMA", "FWSTOP", "FWCOLON", "FWSEMI", "DUN", ",", ".", ";", ":",
     "!", "FWQM", "?"}

\* characters that are not \w: white space, punctuation and symbols
NonWord ==
    Whitespace \cup Punctuation \cup
    {"-", "@", "(", ")", "[", "]", "{", "}", "\\", "/", "+", "=", "<", ">",
     "'", "#", "*", "&", "%", "$", "^", "~", "|"}

IsWord(c) == c \notin NonWord

IsSpace(c) == c \in Whitespace

---------------------------------------------------------------------------
(* Sequence helpers standing for str methods.                              *)

Take(s, n) == SubSeq(s, 1, IF n < Len(s) THEN n ELSE Len(s))

Drop(s, n) == SubSeq(s, n + 1, Len(s))

\* s.startswith(p)
StartsWith(s, p) == Len(p) <= Len(s) /\ SubSeq(s, 1, Len(p)) = p

\* p occurs in s at position i
OccursAt(s, p, i) == i >= 1 /\ i + Len(p) - 1 <= Len(s) /\ SubSeq(s, i, i + Len(p) - 1) = p

\* p in s
Contains(s, p) == \E i \in 1..(Len(s) + 1) : OccursAt(s, p, i)

\* the end of the longest run of characters of class C that starts at i
\* (i - 1 when s[i] is not in C): what a greedy C* consumes
RECURSIVE RunEnd(_, _, _)
RunEnd(s, i, C) ==
    IF i <= Len(s) /\ s[i] \in C THEN RunEnd(s, i + 1, C) ELSE i - 1

\* str.strip()
RECURSIVE LStrip(_)
LStrip(s) == IF s # <<>> /\ IsSpace(s[1]) THEN LStrip(Tail(s)) ELSE s

RECURSIVE RStrip(_)
RStrip(s) ==
    IF s # <<>> /\ IsSpace(s[Len(s)]) THEN RStrip(SubSeq(s, 1, Len(s) - 1)) ELSE s

Strip(s) == RStrip(LStrip(s))

\* str.lower() on the letters the model uses
LowerChar(c) ==
    CASE c = "A" -> "a" [] c = "B" -> "b" [] c = "C" -> "c" [] c = "D" -> "d"
      [] c = "H" -> "h" [] c = "I" -> "i" [] c = "M" -> "m" [] c = "N" -> "n"
      [] c = "O" -> "o" [] c = "R" -> "r" [] c = "S" -> "s" [] c = "T" -> "t"
      [] OTHER -> c

Lower(s) == [k \in 1..Len(s) |-> LowerChar(s[k])]

\* int(str) of a run of digits
DigitValue(c) ==
    CASE c = "0" -> 0 [] c = "1" -> 1 [] c = "2" -> 2 [] c = "3" -> 3
      [] c = "4" -> 4 [] c = "5" -> 5 [] c = "6" -> 6 [] c = "7" -> 7
      [] c = "8" -> 8 [] c = "9" -> 9

RECURSIVE IntOf(_)
IntOf(s) == IF s = <<>> THEN 0 ELSE 10 * IntOf(SubSeq(s, 1, Len(s) - 1)) + DigitValue(s[Len(s)])

---------------------------------------------------------------------------
(* Regular expressions of document_processor.py, each by what re does.     *)

\* the end of a match of  第[一二三四五六七八九十\d]+<unit>  that starts at
\* position i, 0 when there is none.  The numeral run is greedy and the
\* unit character is no numeral, so the match is unique.
LabelEndAt(s, i, Units) ==
    IF i <= Len(s) /\ s[i] = "DI"
    THEN LET e == RunEnd(s, i + 1, ChapterNumerals)
         IN  IF e >= i + 1 /\ e + 1 <= Len(s) /\ s[e + 1] \in Units
             THEN e + 1 ELSE 0
    ELSE 0

\* re.match(r'^第[一二三四五六七八九十\d]+章', text): the end of group(0), or 0
ChapterMatchEnd(text) == LabelEndAt(text, 1, {"ZHANG"})

\* chapter_match.group(0)
ChapterName(text) == SubSeq(text, 1, ChapterMatchEnd(text))

\* $ : the end of the string, or just before one final newline
AtDollar(s, i) == i = Len(s) + 1 \/ (i = Len(s) /\ s[i] = "\n")

\* a character that is not white space follows the white space run at i (\s*\S+)
NonSpaceAfterSpaces(s, i) == RunEnd(s, i, Whitespace) + 1 <= Len(s)

\* \s+\S+ at i
SpacesThenNonSpace(s, i) ==
    LET e == RunEnd(s, i, Whitespace) IN e >= i /\ e + 1 <= Len(s)

\* ^第[...]+章[：:]?\s*\S+   (the colon is itself \S, so it changes nothing)
Pat1(text) ==
    LET e == ChapterMatchEnd(text) IN e > 0 /\ NonSpaceAfterSpaces(text, e + 1)

\* ^第[...]+章$
Pat2(text) ==
    LET e == ChapterMatchEnd(text) IN e > 0 /\ AtDollar(text, e + 1)

\* ^<numerals>+[\.、]\s*[^\.、\d]+ : after the separator comes a character
\* that is neither a separator nor a digit (white space is in that class)
NumberedTitle(text, Numerals) ==
    LET e == RunEnd(text, 1, Numerals)
    IN  /\ e >= 1
        /\ e + 2 <= Len(text)
        /\ text[e + 1] \in {".", "DUN"}
        /\ text[e + 2] \notin ({".", "DUN"} \cup Digits)

\* ^\d+[\.、]\s*[^\.、\d]+
Pat3(text) == NumberedTitle(text, Digits)

\* ^[一二三四五六七八九十]+[\.、]\s*[^\.、\d]+
Pat4(text) == NumberedTitle(text, CnNumerals)

\* the end of  \d+(\.\d+){n}  from position 1, or 0
RECURSIVE DottedEnd(_, _, _)
DottedEnd(s, i, n) ==
    LET e == RunEnd(s, i, Digits)
    IN  IF e < i THEN 0
        ELSE IF n = 0 THEN e
        ELSE IF e + 1 <= Len(s) /\ s[e + 1] = "." THEN DottedEnd(s, e + 2, n - 1)
        ELSE 0

\* ^\d+\.\d+\s+\S+
Pat5(text) ==
    LET e == DottedEnd(text, 1, 1) IN e > 0 /\ SpacesThenNonSpace(text, e + 1)

\* ^\d+\.\d+\.\d+\s+\S+
Pat6(text) ==
    LET e == DottedEnd(text, 1, 2) IN e > 0 /\ SpacesThenNonSpace(text, e + 1)

\* ^第[...]+节\s+\S+
Pat7(text) ==
    LET e == LabelEndAt(text, 1, {"JIE"}) IN e > 0 /\ SpacesThenNonSpace(text, e + 1)

\* chapter_patterns with the for/break of lines 245-249: the level of the
\* first pattern that matches, 0 when none does
PatternLevel(text) ==
    CASE Pat1(text) -> 1
      [] ~Pat1(text) /\ Pat2(text) -> 1
      [] ~Pat1(text) /\ ~Pat2(text) /\ Pat3(text) -> 1
      [] ~Pat1(text) /\ ~Pat2(text) /\ ~Pat3(text) /\ Pat4(text) -> 1
      [] ~Pat1(text) /\ ~Pat2(text) /\ ~Pat3(text) /\ ~Pat4(text) /\ Pat5(text) -> 2
      [] ~Pat1(text) /\ ~Pat2(text) /\ ~Pat3(text) /\ ~Pat4(text) /\ ~Pat5(text)
            /\ Pat6(text) -> 3
      [] ~Pat1(text) /\ ~Pat2(text) /\ ~Pat3(text) /\ ~Pat4(text) /\ ~Pat5(text)
            /\ ~Pat6(text) /\ Pat7(text) -> 2
      [] OTHER -> 0

\* HasPunctuation for the ASCII characters of the class only (C20 depends on
\* the full-width ones)
HasPunctuation_AsciiOnly(text) ==
    \E k \in 1..Len(text) : text[k] \in {",", ".", ";", ":", "!", "?"}

\* re.search(r'[，。：；、,\.;:!？?!]', original_text) is not None
HasPunctuation(text) == \E k \in 1..Len(text) : text[k] \in Punctuation

IsDigit(c) == c \in Digits

\* re.search(label + r'[:]\s*' + value + '+', text), the colon of either
\* width, for the value class \d (digits TRUE) or \w (digits FALSE)
LabelValue(text, label, digits) ==
    \E i \in 1..Len(text) :
        /\ OccursAt(text, label, i)
        /\ i + Len(label) <= Len(text)
        /\ text[i + Len(label)] \in Colons
        /\ LET v == RunEnd(text, i + Len(label) + 1, Whitespace) + 1
           IN  v <= Len(text) /\ (IF digits THEN IsDigit(text[v]) ELSE IsWord(text[v]))

\* [\w\.-]
IsMailChar(c) == IsWord(c) \/ c \in {".", "-"}

\* the end of the longest run of [\w\.-] that starts at i
RECURSIVE MailRunEnd(_, _)
MailRunEnd(s, i) ==
    IF i <= Len(s) /\ IsMailChar(s[i]) THEN MailRunEnd(s, i + 1) ELSE i - 1

\* 邮箱[：:]\s*[\w\.-]+@[\w\.-]+
MailPattern(text) ==
    \E i \in 1..Len(text) :
        /\ OccursAt(text, <<"YOU", "XIANG">>, i)
        /\ i + 2 <= Len(text)
        /\ text[i + 2] \in Colons
        /\ LET v == RunEnd(text, i + 3, Whitespace) + 1
               e == MailRunEnd(text, v)
           IN  /\ e >= v
               /\ e + 2 <= Len(text)
               /\ text[e + 1] = "@"
               /\ IsMailChar(text[e + 2])

\* is_personal_info(text)
is_personal_info(text) ==
    \/ LabelValue(text, <<"XING", "MING">>, FALSE)
    \/ LabelValue(text, <<"DIAN", "HUA">>, TRUE)
    \/ MailPattern(text)
    \/ LabelValue(text, <<"DI4", "ZHI3">>, FALSE)
    \/ LabelValue(text, <<"XUE", "HAO">>, FALSE)
    \/ LabelValue(text, <<"ZHI", "DAO", "JIAO", "SHI1">>, FALSE)

---------------------------------------------------------------------------
(* standardize_chapter_name, document_processor.py lines 401-413.          *)

\* the positions k after the chapter label where kw occurs with a digit
\* right after it
SuffixSites(text, kw) ==
    {k \in (ChapterMatchEnd(text) + 1)..Len(text) :
        /\ OccursAt(text, kw, k)
        /\ k + Len(kw) <= Len(text)
        /\ text[k + Len(kw)] \in Digits}

SetMax(S) == CHOOSE x \in S : \A y \in S : y <= x

\* re.sub(r'^(第[...]+章\s*[\s\S]*<kw>)\d+', r'\1', text): the greedy [\s\S]*
\* stops at the last <kw> that a digit follows, \d+ takes the whole digit
\* run, and ^ allows one replacement only
StripSuffixAfter(text, kw) ==
    IF ChapterMatchEnd(text) = 0 \/ SuffixSites(text, kw) = {} THEN text
    ELSE LET k == SetMax(SuffixSites(text, kw))
             d == RunEnd(text, k + Len(kw), Digits)
         IN  SubSeq(text, 1, k + Len(kw) - 1) \o SubSeq(text, d + 1, Len(text))

\* where \d+$ can end: the end of the text, or just before one final newline
DollarEnd(text) ==
    IF text # <<>> /\ text[Len(text)] = "\n" THEN Len(text) - 1 ELSE Len(text)

\* the first position of the run of digits that ends at r (r + 1 when
\* text[r] is no digit)
RECURSIVE DigitRunStart(_, _)
DigitRunStart(text, r) ==
    IF r >= 1 /\ text[r] \in Digits THEN DigitRunStart(text, r - 1) ELSE r + 1

\* re.sub(r'(第[...]+[章节].*?[^0-9])\d+$', r'\1', text): the digits before $
\* are removed when a label ends before the character c in front of them,
\* with no newline between the label and c (. matches no newline)
StripTrailingDigits(text) ==
    LET r == DollarEnd(text)
        c == DigitRunStart(text, r) - 1
    IN  IF /\ c < r
           /\ c >= 1
           /\ \E i \in 1..c :
                 LET e == LabelEndAt(text, i, {"ZHANG", "JIE"})
                 IN  /\ e > 0
                     /\ e < c
                     /\ \A k \in (e + 1)..(c - 1) : text[k] # "\n"
        THEN SubSeq(text, 1, c) \o SubSeq(text, r + 1, Len(text))
        ELSE text

\* what re.sub(r'\s+', ' ', text) leaves of the characters lo..hi of text:
\* one space for the first character of a run of white space, nothing for
\* the others of the run, every other character as it is
RECURSIVE CollapsedBetween(_, _, _)
CollapsedBetween(text, lo, hi) ==
    IF lo > hi THEN <<>>
    ELSE IF lo = hi
    THEN IF ~IsSpace(text[lo]) THEN <<text[lo]>>
         ELSE IF lo > 1 /\ IsSpace(text[lo - 1]) THEN <<>>
         ELSE <<" ">>
    ELSE CollapsedBetween(text, lo, (lo + hi) \div 2)
             \o CollapsedBetween(text, (lo + hi) \div 2 + 1, hi)

\* re.sub(r'\s+', ' ', text)
CollapseSpaces(text) == CollapsedBetween(text, 1, Len(text))

standardize_chapter_name(text) ==
    LET t1 == StripSuffixAfter(text, <<"XU", "LUN">>)
        t2 == StripSuffixAfter(t1, <<"YIN", "YAN">>)
        t3 == StripTrailingDigits(t2)
    IN  Strip(CollapseSpaces(t3))

---------------------------------------------------------------------------
(* extract_toc_from_docx: what it reads of one paragraph.                  *)
(* A paragraph is [text, style, runs]; a run is [bold, size], size in pt   *)
(* with 0 for a run that sets no size (run.font.size is None).             *)

\* paragraph.text.strip()
StrippedText(para) == Strip(para.text)

\* text.lower() == "目录" or ... == "contents" or ... == "table of contents"
IsContentsMarker(text) ==
    Lower(text) \in
        {<<"MU", "LU">>,
         <<"c", "o", "n", "t", "e", "n", "t", "s">>,
         <<"t", "a", "b", "l", "e", " ", "o", "f", " ",
           "c", "o", "n", "t", "e", "n", "t", "s">>}

\* chapter_name in ["第一章", "第1章"]
FirstChapterLabels == {<<"DI", "YI", "ZHANG">>, <<"DI", "1", "ZHANG">>}

\* paragraph.style.name.startswith('Heading') or '标题' in paragraph.style.name
StyleIsHeading(name) ==
    \/ StartsWith(name, <<"H", "e", "a", "d", "i", "n", "g">>)
    \/ Contains(name, <<"BIAO", "TI">>)

\* re.search(r'\d+', paragraph.style.name): int of the first run of digits,
\* 1 when the name has no digit (lines 208-212)
StyleLevel(name) ==
    LET at == {k \in 1..Len(name) : name[k] \in Digits}
    IN  IF at = {} THEN 1
        ELSE LET k == CHOOSE x \in at : \A y \in at : x <= y
             IN  IntOf(SubSeq(name, k, RunEnd(name, k, Digits)))

\* any(run.bold for run in paragraph.runs)
is_bold(para) == \E k \in 1..Len(para.runs) : para.runs[k].bold

LargeFontPt == 14

\* any(run.font.size and run.font.size.pt > 14 for run in paragraph.runs)
is_large(para) == \E k \in 1..Len(para.runs) : para.runs[k].size > LargeFontPt

\* HeadingLevel with the run formatting in front of the style name (C21
\* depends on the order)
HeadingLevel_RunsFirst(para) ==
    IF para.runs # <<>> /\ (is_bold(para) \/ is_large(para))
    THEN [is_heading |-> TRUE, level |-> IF is_large(para) THEN 1 ELSE 2]
    ELSE IF StyleIsHeading(para.style)
    THEN [is_heading |-> TRUE, level |-> StyleLevel(para.style)]
    ELSE IF PatternLevel(StrippedText(para)) > 0
    THEN [is_heading |-> TRUE, level |-> PatternLevel(StrippedText(para))]
    ELSE [is_heading |-> FALSE, level |-> 0]

\* lines 199-249: [is_heading, level] by style name, else by run formatting,
\* else by the text patterns
HeadingLevel(para) ==
    IF StyleIsHeading(para.style)
    THEN [is_heading |-> TRUE, level |-> StyleLevel(para.style)]
    ELSE IF para.runs # <<>> /\ (is_bold(para) \/ is_large(para))
    THEN [is_heading |-> TRUE, level |-> IF is_large(para) THEN 1 ELSE 2]
    ELSE IF PatternLevel(StrippedText(para)) > 0
    THEN [is_heading |-> TRUE, level |-> PatternLevel(StrippedText(para))]
    ELSE [is_heading |-> FALSE, level |-> 0]

DisplayLimit == 20

Ellipsis == <<".", ".", ".">>

\* DisplayText truncating from 20 characters on (C5 depends on the limit)
DisplayText_AtLeastLimit(standardized_text) ==
    IF Len(standardized_text) >= DisplayLimit
    THEN Take(standardized_text, DisplayLimit) \o Ellipsis
    ELSE standardized_text

\* standardized_text[:20] + "..." if len(standardized_text) > 20 else standardized_text
DisplayText(standardized_text) ==
    IF Len(standardized_text) > DisplayLimit
    THEN Take(standardized_text, DisplayLimit) \o Ellipsis
    ELSE standardized_text

\* lines 264-272 (the same test as is_large, made for every paragraph)
is_large_font(para) == \E k \in 1..Len(para.runs) : para.runs[k].size > LargeFontPt

\* line 276
is_heading1_style(para) ==
    \/ StartsWith(Lower(para.style), <<"h", "e", "a", "d", "i", "n", "g", " ", "1">>)
    \/ Contains(para.style, <<"BIAO", "TI", " ", "1">>)
    \/ Contains(para.style, <<"BIAO", "TI", "1">>)

\* meets_font_style_requirement without the test of level 1 (C19 depends on
\* it)
FontStyleRequirement_None(para, level) == level = 1 => TRUE

\* lines 279-281
meets_font_style_requirement(para, level) ==
    level = 1 => (is_large_font(para) \/ is_heading1_style(para))

\* MainPassAccepts without the test of chapter_texts (C3 depends on it)
MainPassAccepts_NoDedupe(para, chapter_texts) ==
    LET text == StrippedText(para)
        h == HeadingLevel(para)
    IN  /\ h.is_heading
        /\ ~is_personal_info(text)
        /\ ~HasPunctuation(text)
        /\ meets_font_style_requirement(para, h.level)

\* the condition of lines 284-290
MainPassAccepts(para, chapter_texts) ==
    LET text == StrippedText(para)
        h == HeadingLevel(para)
    IN  /\ h.is_heading
        /\ ~is_personal_info(text)
        /\ DisplayText(standardize_chapter_name(text)) \notin chapter_texts
        /\ ~HasPunctuation(text)
        /\ meets_font_style_requirement(para, h.level)

\* re.sub(r'[^\w\d]', '', text[:5])
RECURSIVE WordCharsOf(_)
WordCharsOf(s) ==
    IF s = <<>> THEN <<>>
    ELSE (IF IsWord(s[1]) THEN <<s[1]>> ELSE <<>>) \o WordCharsOf(Tail(s))

safe_text(text) == WordCharsOf(Take(text, 5))

\* f"section-{i}-{safe_text}", kept as the pair of its two parts
chapter_id(i, text) == <<i, safe_text(text)>>

\* the item of lines 298-306 and 359-367
TocNode(i, level, text) ==
    [index |-> i,
     level |-> level,
     text |-> DisplayText(standardize_chapter_name(text)),
     original_text |-> text,
     standardized_text |-> standardize_chapter_name(text),
     id |-> chapter_id(i, text),
     children |-> <<>>]

\* chapter_keywords, lines 335-337
chapter_keywords ==
    {<<"XU", "LUN">>, <<"YIN", "YAN">>, <<"JIAN", "JIE4">>, <<"GAI", "SHU">>,
     <<"BEI", "JING">>, <<"FANG", "FA">>, <<"SHI2", "YAN4">>, <<"JIE2", "GUO">>,
     <<"FEN", "XI">>, <<"TAO", "LUN">>, <<"JIE2", "LUN">>,
     <<"CAN", "KAO", "WEN", "XIAN">>, <<"ZHI4", "XIE">>,
     <<"I", "n", "t", "r", "o", "d", "u", "c", "t", "i", "o", "n">>,
     <<"M", "e", "t", "h", "o", "d", "s">>,
     <<"R", "e", "s", "u", "l", "t", "s">>,
     <<"D", "i", "s", "c", "u", "s", "s", "i", "o", "n">>,
     <<"C", "o", "n", "c", "l", "u", "s", "i", "o", "n">>,
     <<"R", "e", "f", "e", "r", "e", "n", "c", "e", "s">>}

\* any(keyword in text for keyword in chapter_keywords)
HasKeyword(text) == \E kw \in chapter_keywords : Contains(text, kw)

MinLineLen == 4

MaxLineLen == 100

ShortLineLen == 30

FallbackWindow == 100

\* FallbackCandidate without the test of is_personal_info (C4 depends on it)
FallbackCandidate_NoPersonalCheck(para) ==
    LET text == StrippedText(para)
    IN  /\ text # <<>>
        /\ Len(text) >= MinLineLen
        /\ Len(text) <= MaxLineLen
        /\ HasKeyword(text)
        /\ ((para.runs # <<>> /\ is_bold(para)) \/ Len(text) < ShortLineLen)

\* lines 323-351 without the check of chapter_texts: the line has a fit
\* length and a keyword, is bold or short, and is no personal information
FallbackCandidate(para) ==
    LET text == StrippedText(para)
    IN  /\ text # <<>>
        /\ Len(text) >= MinLineLen
        /\ Len(text) <= MaxLineLen
        /\ HasKeyword(text)
        /\ ((para.runs # <<>> /\ is_bold(para)) \/ Len(text) < ShortLineLen)
        /\ ~is_personal_info(text)

\* lines 323-351
FallbackAccepts(para, chapter_texts) ==
    /\ FallbackCandidate(para)
    /\ DisplayText(standardize_chapter_name(StrippedText(para))) \notin chapter_texts

---------------------------------------------------------------------------
(* The packages extract_toc_from_docx is run on.                           *)

Heading1 == <<"H", "e", "a", "d", "i", "n", "g", " ", "1">>

Heading2 == <<"H", "e", "a", "d", "i", "n", "g", " ", "2">>

Normal == <<"N", "o", "r", "m", "a", "l">>

\* a heading style whose name has no level
HeadingNoLevel == <<"H", "e", "a", "d", "i", "n", "g">>

PlainRun == [bold |-> FALSE, size |-> 0]

BoldRun == [bold |-> TRUE, size |-> 14]

LargeRun == [bold |-> TRUE, size |-> 16]

Para(text, style, runs) == [text |-> text, style |-> style, runs |-> runs]

\* "目录"
P_Mark == Para(<<"MU", "LU">>, Normal, <<PlainRun>>)

\* " Contents"
P_Contents == Para(<<" ", "C", "o", "n", "t", "e", "n", "t", "s">>, Normal, <<PlainRun>>)

\* "  ", a paragraph without text
P_Empty == Para(<<" ", " ">>, Normal, <<>>)

\* "第一章 绪论1", a line of the contents listing with its page number
P_Toc1 == Para(<<"DI", "YI", "ZHANG", " ", "XU", "LUN", "1">>, Normal, <<PlainRun>>)

\* "第一章 绪论" in Heading 1
P_Ch1H1 == Para(<<"DI", "YI", "ZHANG", " ", "XU", "LUN">>, Heading1, <<PlainRun>>)

\* "第一章 绪论" in Normal, no run formatting
P_Ch1Plain == Para(<<"DI", "YI", "ZHANG", " ", "XU", "LUN">>, Normal, <<PlainRun>>)

\* "第一章 绪论2" in Normal, bold 14pt
P_Ch1Bold == Para(<<"DI", "YI", "ZHANG", " ", "XU", "LUN", "2">>, Normal, <<BoldRun>>)

\* "第1章 绪论" in the style Heading, no run formatting
P_Ch1Digit == Para(<<"DI", "1", "ZHANG", " ", "XU", "LUN">>, HeadingNoLevel, <<PlainRun>>)

\* "第一章：总则" in Heading 1
P_Ch1Colon == Para(<<"DI", "YI", "ZHANG", "FWCOLON", "ZONG", "ZE">>, Heading1, <<PlainRun>>)

\* "第二章 方法AAAAAAAAAAAAAA" (20 characters) in Normal, bold 16pt
P_Ch2Large ==
    Para(<<"DI", "ER", "ZHANG", " ", "FANG", "FA", "A", "A", "A", "A", "A", "A", "A",
           "A", "A", "A", "A", "A", "A", "A">>, Normal, <<PlainRun, LargeRun>>)

\* "第三章 实验AAAAAAAAAAAAAAA" (21 characters) in Heading 1
P_Long ==
    Para(<<"DI", "SAN", "ZHANG", " ", "SHI2", "YAN4", "A", "A", "A", "A", "A", "A", "A",
           "A", "A", "A", "A", "A", "A", "A", "A">>, Heading1, <<PlainRun>>)

\* "研究背景" in Heading 2
P_SubH2 == Para(<<"YAN1", "JIU1", "BEI", "JING">>, Heading2, <<PlainRun>>)

\* "第一节 背景" in Normal, no run formatting
P_Sec == Para(<<"DI", "YI", "JIE", " ", "BEI", "JING">>, Normal, <<PlainRun>>)

\* "地址：实验楼" in Heading 1, bold
P_Addr ==
    Para(<<"DI4", "ZHI3", "FWCOLON", "SHI2", "YAN4", "LOU">>, Heading1, <<BoldRun>>)

\* "实验结果" in Normal, no run formatting
P_Exp == Para(<<"SHI2", "YAN4", "JIE2", "GUO">>, Normal, <<PlainRun>>)

\* how a document starts
Prefixes ==
    {<<>>,
     <<P_Mark, P_Toc1>>,
     <<P_Mark, P_Toc1, P_Ch1Bold>>,
     <<P_Mark, P_Toc1, P_Ch1Bold, P_Ch2Large>>,
     <<P_Ch1Plain, P_Mark, P_Toc1>>,
     <<P_Empty, P_Contents, P_Toc1, P_Ch1Plain>>}

\* the paragraphs that follow
BodyPool ==
    {P_Mark, P_Toc1, P_Ch1H1, P_Ch1Digit, P_Ch1Bold, P_Ch1Colon, P_Ch2Large, P_Long,
     P_SubH2, P_Sec, P_Addr, P_Exp}

MaxBody == 2

RECURSIVE SeqsUpTo(_, _)
SeqsUpTo(S, n) ==
    IF n = 0 THEN {<<>>}
    ELSE LET shorter == SeqsUpTo(S, n - 1)
         IN  shorter \cup {Append(q, x) : q \in {r \in shorter : Len(r) = n - 1}, x \in S}

\* a package docx.Document reads, with its doc.paragraphs
Documents ==
    {[readable |-> TRUE, paragraphs |-> pre \o body] :
        pre \in Prefixes, body \in SeqsUpTo(BodyPool, MaxBody)}

\* a package docx.Document cannot read
Unreadable == [readable |-> FALSE, paragraphs |-> <<>>]

\* a line of n characters that starts with keyword
KeywordLine(keyword, n) == keyword \o [k \in 1..(n - Len(keyword)) |-> "A"]

\* "绪论A", 3 characters, bold
P_TooShort == Para(KeywordLine(<<"XU", "LUN">>, 3), Normal, <<BoldRun>>)

\* "实验AAA..." of 30 characters, no run formatting
P_Wide == Para(KeywordLine(<<"SHI2", "YAN4">>, 30), Normal, <<PlainRun>>)

\* "方法AAA..." of 30 characters, bold
P_WideBold == Para(KeywordLine(<<"FANG", "FA">>, 30), Normal, <<BoldRun>>)

\* "讨论AAA..." of 100 characters, bold
P_Widest == Para(KeywordLine(<<"TAO", "LUN">>, 100), Normal, <<BoldRun>>)

\* "结论AAA..." of 101 characters, bold
P_TooWide == Para(KeywordLine(<<"JIE2", "LUN">>, 101), Normal, <<BoldRun>>)

Heading3 == <<"H", "e", "a", "d", "i", "n", "g", " ", "3">>

\* "内容" in Heading 3
P_Sub3 == Para(<<"NEI", "RONG">>, Heading3, <<PlainRun>>)

\* a chapter with a node of level 2 and a node of level 3 behind it, and a
\* second chapter
NestedDocument ==
    [readable |-> TRUE,
     paragraphs |-> <<P_Mark, P_Toc1, P_Ch1H1, P_SubH2, P_Sub3, P_Ch2Large>>]

\* a document of 101 paragraphs without contents marker: lines of every
\* length class first, "实验结果" at index 99 and "第一节 背景" at index 100
LongDocument ==
    [readable |-> TRUE,
     paragraphs |-> <<P_TooShort, P_Wide, P_WideBold, P_Widest, P_TooWide>>
                        \o [k \in 1..94 |-> P_Empty] \o <<P_Exp, P_Sec>>]

---------------------------------------------------------------------------
(* extract_toc_from_docx as a state machine: one step per paragraph of     *)
(* each of its loops.  toc.i and the node indexes are Python's, from 0;    *)
(* paragraph i is doc.paragraphs[i + 1].                                   *)

\* a component that is not running in the specification at hand
Idle == [pc |-> "idle"]

\* lines 126-144
TocLocals ==
    [pc |-> "open",
     i |-> 0,
     j |-> 0,
     toc_items |-> <<>>,
     main_chapters |-> <<>>,
     sub_chapters |-> <<>>,
     found_toc |-> FALSE,
     in_toc_section |-> FALSE,
     found_content_start |-> FALSE,
     chapter_texts |-> {},
     toc_start_index |-> -1,
     toc_end_index |-> -1,
     content_start_index |-> -1,
     chapter_count |-> [n \in {} |-> 0],
     start_index |-> 0,
     raised |-> FALSE]

TocInit ==
    /\ doc \in Documents \cup {Unreadable, LongDocument, NestedDocument}
    /\ toc = TocLocals
    /\ std = Idle
    /\ tex = Idle
    /\ pkg = Idle
    /\ conv = Idle
    /\ math = Idle
    /\ jobs = Idle
    /\ head = Idle
    /\ session = Idle
    /\ calls = Idle

\* Opened without the handler of lines 395-399 (C9 depends on it)
Opened_NoHandler(locals, package) ==
    IF ~package.readable
    THEN [locals EXCEPT !.pc = "raised", !.raised = TRUE]
    ELSE [locals EXCEPT !.pc = "scan1"]

\* lines 122-124 and 395-399: docx.Document raises on a package it cannot
\* read; the handler of the function returns []
Opened(locals, package) ==
    IF ~package.readable
    THEN [locals EXCEPT !.pc = "done", !.toc_items = <<>>]
    ELSE [locals EXCEPT !.pc = "scan1"]

OpenDocument ==
    /\ toc.pc = "open"
    /\ toc' = Opened(toc, doc)
    /\ UNCHANGED <<doc, std, tex, pkg, conv, math, jobs, head, session, calls>>

\* CountChapter with one count for the two first-chapter labels (C18
\* depends on a count for each label)
CountChapter_AnyFirstLabel(chapter_count, chapter_name) ==
    IF chapter_name \in FirstChapterLabels
           /\ DOMAIN chapter_count \cap FirstChapterLabels # {}
    THEN (chapter_name :> 2) @@ chapter_count
    ELSE IF chapter_name \in DOMAIN chapter_count
    THEN [chapter_count EXCEPT ![chapter_name] = @ + 1]
    ELSE chapter_count @@ (chapter_name :> 1)

\* lines 168-171
CountChapter(chapter_count, chapter_name) ==
    IF chapter_name \in DOMAIN chapter_count
    THEN [chapter_count EXCEPT ![chapter_name] = @ + 1]
    ELSE chapter_count @@ (chapter_name :> 1)

\* IsBodyStart counting one occurrence too many (C1 depends on the count)
IsBodyStart_ThirdOccurrence(chapter_name, chapter_count) ==
    chapter_name \in FirstChapterLabels /\ chapter_count[chapter_name] > 2

\* line 174: the first-chapter label is seen for the second time
IsBodyStart(chapter_name, chapter_count) ==
    chapter_name \in FirstChapterLabels /\ chapter_count[chapter_name] > 1

\* lines 147-180, one paragraph of the first scan
Scan1Step ==
    /\ toc.pc = "scan1"
    /\ toc.i < Len(doc.paragraphs)
    /\ LET text == StrippedText(doc.paragraphs[toc.i + 1])
           counted == CountChapter(toc.chapter_count, ChapterName(text))
       IN  toc' =
             IF text = <<>> THEN [toc EXCEPT !.i = @ + 1]
             ELSE IF ~toc.found_toc /\ IsContentsMarker(text)
             THEN [toc EXCEPT !.found_toc = TRUE,
                              !.in_toc_section = TRUE,
                              !.toc_start_index = toc.i,
                              !.i = @ + 1]
             ELSE IF toc.found_toc /\ toc.in_toc_section /\ ChapterMatchEnd(text) > 0
             THEN IF IsBodyStart(ChapterName(text), counted)
                  THEN [toc EXCEPT !.chapter_count = counted,
                                   !.in_toc_section = FALSE,
                                   !.found_content_start = TRUE,
                                   !.content_start_index = toc.i,
                                   !.toc_end_index = toc.i - 1,
                                   !.pc = "located"]
                  ELSE [toc EXCEPT !.chapter_count = counted, !.i = @ + 1]
             ELSE [toc EXCEPT !.i = @ + 1]
    /\ UNCHANGED <<doc, std, tex, pkg, conv, math, jobs, head, session, calls>>

\* line 147: the first scan has read every paragraph
Scan1Done ==
    /\ toc.pc = "scan1"
    /\ toc.i = Len(doc.paragraphs)
    /\ toc' = [toc EXCEPT !.pc = "located"]
    /\ UNCHANGED <<doc, std, tex, pkg, conv, math, jobs, head, session, calls>>

\* Locate with the second scan from the contents marker on (C24 depends on
\* the start index of line 191)
Locate_FromTocStart ==
    /\ toc.pc = "located"
    /\ LET toc_end == IF toc.toc_end_index = -1 /\ toc.content_start_index # -1
                      THEN toc.content_start_index - 1
                      ELSE toc.toc_end_index
       IN  toc' =
             IF toc.found_toc /\ toc.toc_start_index # -1 /\ toc.content_start_index # -1
             THEN [toc EXCEPT !.toc_end_index = toc_end,
                              !.start_index = toc.toc_start_index,
                              !.i = toc.toc_start_index,
                              !.pc = "scan2"]
             ELSE [toc EXCEPT !.toc_end_index = toc_end, !.pc = "check"]
    /\ UNCHANGED <<doc, std, tex, pkg, conv, math, jobs, head, session, calls>>

\* lines 182-194
Locate ==
    /\ toc.pc = "located"
    /\ LET toc_end == IF toc.toc_end_index = -1 /\ toc.content_start_index # -1
                      THEN toc.content_start_index - 1
                      ELSE toc.toc_end_index
       IN  toc' =
             IF toc.found_toc /\ toc.toc_start_index # -1 /\ toc.content_start_index # -1
             THEN [toc EXCEPT !.toc_end_index = toc_end,
                              !.start_index = toc.content_start_index,
                              !.i = toc.content_start_index,
                              !.pc = "scan2"]
             ELSE [toc EXCEPT !.toc_end_index = toc_end, !.pc = "check"]
    /\ UNCHANGED <<doc, std, tex, pkg, conv, math, jobs, head, session, calls>>

\* lines 194-313, one paragraph of the second scan
Scan2Step ==
    /\ toc.pc = "scan2"
    /\ toc.i < Len(doc.paragraphs)
    /\ LET para == doc.paragraphs[toc.i + 1]
           text == StrippedText(para)
           level == HeadingLevel(para).level
           item == TocNode(toc.i, level, text)
       IN  toc' =
             IF text = <<>> THEN [toc EXCEPT !.i = @ + 1]
             ELSE IF MainPassAccepts(para, toc.chapter_texts)
             THEN IF level = 1
                  THEN [toc EXCEPT !.chapter_texts = @ \cup {item.text},
                                   !.main_chapters = Append(@, item),
                                   !.i = @ + 1]
                  ELSE [toc EXCEPT !.chapter_texts = @ \cup {item.text},
                                   !.sub_chapters = Append(@, item),
                                   !.i = @ + 1]
             ELSE [toc EXCEPT !.i = @ + 1]
    /\ UNCHANGED <<doc, std, tex, pkg, conv, math, jobs, head, session, calls>>

\* line 194: the second scan has read every paragraph
Scan2Done ==
    /\ toc.pc = "scan2"
    /\ toc.i = Len(doc.paragraphs)
    /\ toc' = [toc EXCEPT !.pc = "check"]
    /\ UNCHANGED <<doc, std, tex, pkg, conv, math, jobs, head, session, calls>>

\* CheckChapters with the keyword scan after every main pass (C22 depends on
\* the test of line 316)
CheckChapters_AlwaysFallback ==
    /\ toc.pc = "check"
    /\ LET start == IF toc.content_start_index # -1 THEN toc.content_start_index ELSE 0
       IN  toc' = [toc EXCEPT !.start_index = start, !.i = start, !.pc = "fallback"]
    /\ UNCHANGED <<doc, std, tex, pkg, conv, math, jobs, head, session, calls>>

\* lines 316-321
CheckChapters ==
    /\ toc.pc = "check"
    /\ LET start == IF toc.content_start_index # -1 THEN toc.content_start_index ELSE 0
       IN  toc' =
             IF Len(toc.main_chapters) < 1
             THEN [toc EXCEPT !.start_index = start, !.i = start, !.pc = "fallback"]
             ELSE [toc EXCEPT !.j = 0, !.pc = "build"]
    /\ UNCHANGED <<doc, std, tex, pkg, conv, math, jobs, head, session, calls>>

\* lines 321-369, one paragraph of the keyword scan
FallbackStep ==
    /\ toc.pc = "fallback"
    /\ toc.i < Len(doc.paragraphs)
    /\ toc.i < toc.start_index + FallbackWindow
    /\ LET para == doc.paragraphs[toc.i + 1]
           item == TocNode(toc.i, 1, StrippedText(para))
       IN  toc' =
             IF FallbackAccepts(para, toc.chapter_texts)
             THEN [toc EXCEPT !.chapter_texts = @ \cup {item.text},
                              !.main_chapters = Append(@, item),
                              !.i = @ + 1]
             ELSE [toc EXCEPT !.i = @ + 1]
    /\ UNCHANGED <<doc, std, tex, pkg, conv, math, jobs, head, session, calls>>

\* line 321: the slice doc.paragraphs[start_index:start_index+100] is used up
FallbackDone ==
    /\ toc.pc = "fallback"
    /\ (toc.i = Len(doc.paragraphs) \/ toc.i = toc.start_index + FallbackWindow)
    /\ toc' = [toc EXCEPT !.j = 0, !.pc = "build"]
    /\ UNCHANGED <<doc, std, tex, pkg, conv, math, jobs, head, session, calls>>

\* ParentOf taking the first chapter in front of sub_item instead of the
\* last (C8 depends on the direction of the search)
ParentOf_FirstBefore(main_chapters, sub_item) ==
    LET before == {k \in 1..Len(main_chapters) :
                      main_chapters[k].index < sub_item.index}
    IN  IF before # {} THEN CHOOSE k \in before : \A x \in before : k <= x
        ELSE IF main_chapters # <<>> THEN 1
        ELSE 0

\* lines 375-383: the position in main_chapters of the parent of sub_item,
\* 0 when it gets none
ParentOf(main_chapters, sub_item) ==
    LET before == {k \in 1..Len(main_chapters) :
                      main_chapters[k].index < sub_item.index}
    IN  IF before # {} THEN SetMax(before)
        ELSE IF main_chapters # <<>> THEN 1
        ELSE 0

\* BuildStep with the sub_item under the first chapter as well as under its
\* parent (C23 depends on the break of line 379)
BuildStep_FirstChapterToo ==
    /\ toc.pc = "build"
    /\ toc.j < Len(toc.sub_chapters)
    /\ LET sub_item == toc.sub_chapters[toc.j + 1]
           k == ParentOf(toc.main_chapters, sub_item)
       IN  toc' =
             IF k = 0 THEN [toc EXCEPT !.j = @ + 1]
             ELSE IF k = 1
             THEN [toc EXCEPT !.main_chapters[k].children = Append(@, sub_item),
                              !.j = @ + 1]
             ELSE [toc EXCEPT !.main_chapters[k].children = Append(@, sub_item),
                              !.main_chapters[1].children = Append(@, sub_item),
                              !.j = @ + 1]
    /\ UNCHANGED <<doc, std, tex, pkg, conv, math, jobs, head, session, calls>>

\* lines 372-383, one sub_item
BuildStep ==
    /\ toc.pc = "build"
    /\ toc.j < Len(toc.sub_chapters)
    /\ LET sub_item == toc.sub_chapters[toc.j + 1]
           k == ParentOf(toc.main_chapters, sub_item)
       IN  toc' =
             IF k = 0 THEN [toc EXCEPT !.j = @ + 1]
             ELSE [toc EXCEPT !.main_chapters[k].children = Append(@, sub_item),
                              !.j = @ + 1]
    /\ UNCHANGED <<doc, std, tex, pkg, conv, math, jobs, head, session, calls>>

\* lines 386-394
ReturnToc ==
    /\ toc.pc = "build"
    /\ toc.j = Len(toc.sub_chapters)
    /\ toc' = [toc EXCEPT !.toc_items = toc.main_chapters, !.pc = "done"]
    /\ UNCHANGED <<doc, std, tex, pkg, conv, math, jobs, head, session, calls>>

TocNext ==
    \/ OpenDocument
    \/ Scan1Step
    \/ Scan1Done
    \/ Locate
    \/ Scan2Step
    \/ Scan2Done
    \/ CheckChapters
    \/ FallbackStep
    \/ FallbackDone
    \/ BuildStep
    \/ ReturnToc

SpecToc == TocInit /\ [][TocNext]_vars

---------------------------------------------------------------------------
(* Properties of extract_toc_from_docx, checked under SpecToc.             *)

SeqSet(q) == {q[k] : k \in 1..Len(q)}

\* paragraph i (Python index) of the document
ParaAt(i) == doc.paragraphs[i + 1]

ParaIndexes == 0..(Len(doc.paragraphs) - 1)

\* the nodes accepted so far, chapters first
Accepted == toc.main_chapters \o toc.sub_chapters

\* the function has returned a list for a package it could read
Returned == toc.pc = "done" /\ doc.readable

\* paragraph i starts with the first-chapter label
StartsWithFirstLabel(i) == ChapterName(StrippedText(ParaAt(i))) \in FirstChapterLabels

\* The stream of C1: m is its only contents marker, a is the only paragraph
\* between m and b that starts with the first-chapter label, b starts with
\* the same label and has the style Heading 1, and nothing after b is a
\* heading of level 1.
C1Stream(m, a, b) ==
    /\ m < a /\ a < b
    /\ \A i \in ParaIndexes : IsContentsMarker(StrippedText(ParaAt(i))) <=> i = m
    /\ \A i \in ParaIndexes : (m < i /\ i < b) => (StartsWithFirstLabel(i) <=> i = a)
    /\ StartsWithFirstLabel(b)
    /\ ChapterName(StrippedText(ParaAt(a))) = ChapterName(StrippedText(ParaAt(b)))
    /\ ParaAt(b).style = Heading1
    /\ \A i \in ParaIndexes : i > b => HeadingLevel(ParaAt(i)).level # 1

\* the result holds exactly one chapter node, of level 1 and index b
OneChapterAt(b) ==
    /\ Len(toc.toc_items) = 1
    /\ toc.toc_items[1].level = 1
    /\ toc.toc_items[1].index = b

\* C1 as stated: for every stream with one contents marker, one paragraph
\* starting with the first-chapter label in the listing and a later one with
\* the same label in Heading 1, the result is exactly one level-1 chapter
\* node whose index is the position of the second occurrence.
C1_AsStated ==
    Returned =>
        \A m \in ParaIndexes, a \in ParaIndexes, b \in ParaIndexes :
            C1Stream(m, a, b) => OneChapterAt(b)

\* C1 amended: the same, for a second occurrence whose text holds none of
\* the punctuation characters of line 261.
C1_HeadingOneBodyStart ==
    Returned =>
        \A m \in ParaIndexes, a \in ParaIndexes, b \in ParaIndexes :
            (C1Stream(m, a, b) /\ ~HasPunctuation(StrippedText(ParaAt(b))))
                => OneChapterAt(b)

C1_Witness ==
    /\ Returned
    /\ \E m \in ParaIndexes, a \in ParaIndexes, b \in ParaIndexes :
           /\ C1Stream(m, a, b)
           /\ ~HasPunctuation(StrippedText(ParaAt(b)))
           /\ OneChapterAt(b)
           /\ b < Len(doc.paragraphs) - 1

\* the display text of paragraph i
DisplayOf(i) == DisplayText(standardize_chapter_name(StrippedText(ParaAt(i))))

\* paragraph i passes every test of the main pass but the one of chapter_texts
MainCandidate(i) == StrippedText(ParaAt(i)) # <<>> /\ MainPassAccepts(ParaAt(i), {})

\* paragraph i has been read by the loop that is running
ReadByLoop(i) == toc.start_index <= i /\ i < toc.i

\* paragraph i was a candidate of a pass that has read it
WasCandidate(i) ==
    \/ toc.pc = "scan2" /\ ReadByLoop(i) /\ MainCandidate(i)
    \/ toc.pc = "fallback" /\ ReadByLoop(i) /\ FallbackCandidate(ParaAt(i))
    \/ toc.pc = "fallback" /\ toc.content_start_index # -1
          /\ i >= toc.content_start_index /\ MainCandidate(i)

\* no two accepted nodes have the same display text
UniqueDisplayTexts ==
    \A x \in 1..Len(Accepted), y \in 1..Len(Accepted) :
        x # y => Accepted[x].text # Accepted[y].text

\* the nodes of the returned list, chapters and their children
ReturnedNodes ==
    UNION {{toc.toc_items[k]} \cup SeqSet(toc.toc_items[k].children) :
              k \in 1..Len(toc.toc_items)}

\* the returned chapters show that the fallback scan has run: there is none,
\* or one of them is no level-1 candidate of the main pass
FallbackRan ==
    \/ toc.main_chapters = <<>>
    \/ \E k \in 1..Len(toc.main_chapters) :
           LET i == toc.main_chapters[k].index
           IN  ~(MainCandidate(i) /\ HeadingLevel(ParaAt(i)).level = 1)

\* paragraph i was a candidate of the call that has returned
CandidateOfCall(i) ==
    LET start == IF toc.content_start_index # -1 THEN toc.content_start_index ELSE 0
    IN  \/ toc.content_start_index # -1 /\ i >= toc.content_start_index
              /\ MainCandidate(i)
        \/ FallbackRan /\ i >= start /\ i < start + FallbackWindow
              /\ FallbackCandidate(ParaAt(i))

\* C3 as stated: in the returned list display texts are unique among the
\* nodes, and of two candidate paragraphs with the same display text the one
\* with the smaller index is kept, whichever pass they are candidates of.
C3_AsStated ==
    Returned =>
        /\ \A n1 \in ReturnedNodes, n2 \in ReturnedNodes :
               n1.text = n2.text => n1.index = n2.index
        /\ \A n \in ReturnedNodes, i \in ParaIndexes :
               (CandidateOfCall(i) /\ DisplayOf(i) = n.text) => n.index <= i

\* C3 amended: display texts are unique among the nodes; within the main
\* pass, and within the fallback scan, of two candidates with the same
\* display text the one with the smaller index is kept (a node of the main
\* pass is kept whatever the index of a fallback candidate).
C3_UniqueFirstInPass ==
    /\ UniqueDisplayTexts
    /\ toc.pc = "scan2" =>
           \A x \in 1..Len(Accepted), i \in ParaIndexes :
               (ReadByLoop(i) /\ MainCandidate(i) /\ DisplayOf(i) = Accepted[x].text)
                   => Accepted[x].index <= i
    /\ toc.pc = "fallback" =>
           \A x \in 1..Len(toc.main_chapters), i \in ParaIndexes :
               (ReadByLoop(i) /\ FallbackCandidate(ParaAt(i))
                   /\ DisplayOf(i) = toc.main_chapters[x].text)
                   => toc.main_chapters[x].index <= i

\* a candidate was dropped for the display text of an earlier node
C3_Witness ==
    /\ toc.pc \in {"scan2", "fallback"}
    /\ \E x \in 1..Len(Accepted), i \in ParaIndexes :
           /\ WasCandidate(i)
           /\ DisplayOf(i) = Accepted[x].text
           /\ Accepted[x].index < i
           /\ Accepted[x].original_text # StrippedText(ParaAt(i))

\* C4: a paragraph whose text matches a personal-information pattern is
\* never a node, neither of the main pass nor of the fallback scan.
C4_NoPersonalInfoNode ==
    \A x \in 1..Len(Accepted) :
        ~is_personal_info(StrippedText(ParaAt(Accepted[x].index)))

\* a scan has read a paragraph with personal information that has a keyword,
\* a heading style and bold runs
C4_Witness ==
    /\ toc.pc = "build"
    /\ \E i \in ParaIndexes :
           /\ toc.start_index <= i
           /\ is_personal_info(StrippedText(ParaAt(i)))
           /\ HasKeyword(StrippedText(ParaAt(i)))
           /\ StyleIsHeading(ParaAt(i).style)
           /\ is_bold(ParaAt(i))

\* q ends with the three dots
EndsWithEllipsis(q) == Len(q) >= 3 /\ SubSeq(q, Len(q) - 2, Len(q)) = <<".", ".", ".">>

\* C5: the display text of a node is the first 20 characters of the
\* standardized text followed by the ellipsis exactly when the standardized
\* text is longer than 20 characters and is the standardized text otherwise;
\* original_text is the stripped text of the paragraph.
C5_DisplayTruncation ==
    \A x \in 1..Len(Accepted) :
        LET node == Accepted[x]
            stripped == StrippedText(ParaAt(node.index))
            standardized == standardize_chapter_name(stripped)
            truncated == /\ Len(node.text) = 23
                         /\ EndsWithEllipsis(node.text)
                         /\ SubSeq(node.text, 1, 20) = Take(standardized, 20)
        IN  /\ node.original_text = stripped
            /\ node.standardized_text = standardized
            /\ truncated <=> Len(standardized) > 20
            /\ ~truncated => node.text = standardized

\* nodes with standardized texts of 20 and of 21 characters were accepted
C5_Witness ==
    /\ \E x \in 1..Len(Accepted) : Len(Accepted[x].standardized_text) = 20
    /\ \E x \in 1..Len(Accepted) :
           /\ Len(Accepted[x].standardized_text) = 21
           /\ Len(Accepted[x].text) = 23
    /\ \E x \in 1..Len(Accepted) :
           Accepted[x].original_text # Accepted[x].standardized_text

\* chapter c of the result is the one sub_item belongs to: the chapter with
\* the greatest index below the index of sub_item, or the first chapter
\* when no chapter is before sub_item
IsNearestChapter(c, sub_item) ==
    LET chapters == toc.toc_items
        before == {k \in 1..Len(chapters) : chapters[k].index < sub_item.index}
    IN  IF before = {} THEN c = 1
        ELSE /\ c \in before
             /\ \A k \in before : chapters[k].index <= chapters[c].index

\* sub_item is a child of chapter c of the result and of no other chapter
ChildOfOnly(c, sub_item) ==
    \A k \in 1..Len(toc.toc_items) :
        (sub_item \in SeqSet(toc.toc_items[k].children)) <=> k = c

\* the levels of the result: chapters are 1, accepted subchapters are not
LevelsSplit ==
    /\ \A k \in 1..Len(toc.toc_items) : toc.toc_items[k].level = 1
    /\ \A k \in 1..Len(toc.sub_chapters) : toc.sub_chapters[k].level >= 2
    /\ toc.toc_items = toc.main_chapters

\* C8 as stated: accepted level-1 nodes are the chapters of the result, and
\* every accepted node of level >= 2 is a child of its nearest preceding
\* chapter, or of the first chapter when none precedes it.
C8_AsStated ==
    Returned =>
        /\ LevelsSplit
        /\ \A k \in 1..Len(toc.sub_chapters) :
               \E c \in 1..Len(toc.toc_items) :
                   /\ IsNearestChapter(c, toc.sub_chapters[k])
                   /\ ChildOfOnly(c, toc.sub_chapters[k])

\* C8 amended: the same when the result holds at least one chapter; a
\* result without chapters is empty and holds no accepted subchapter.
C8_NearestChapter ==
    Returned =>
        /\ LevelsSplit
        /\ toc.toc_items # <<>> =>
               \A k \in 1..Len(toc.sub_chapters) :
                   \E c \in 1..Len(toc.toc_items) :
                       /\ IsNearestChapter(c, toc.sub_chapters[k])
                       /\ ChildOfOnly(c, toc.sub_chapters[k])

\* a subchapter hangs under the second of two chapters before it, and
\* another under the first chapter although it is in front of it
C8_Witness ==
    /\ Returned
    /\ Len(toc.toc_items) >= 2
    /\ \E x \in 1..Len(toc.sub_chapters) :
           /\ toc.sub_chapters[x].index > toc.toc_items[2].index
           /\ toc.sub_chapters[x] \in SeqSet(toc.toc_items[2].children)
    /\ \E y \in 1..Len(toc.sub_chapters) :
           /\ toc.sub_chapters[y].index < toc.toc_items[1].index
           /\ toc.sub_chapters[y] \in SeqSet(toc.toc_items[1].children)

\* every chapter so far comes from a line the fallback scan takes
OnlyFallbackChapters ==
    \A k \in 1..Len(toc.main_chapters) :
        /\ FallbackCandidate(ParaAt(toc.main_chapters[k].index))
        /\ toc.main_chapters[k].level = 1

\* no paragraph of the body is a level-1 candidate of the main pass
NoMainChapterCandidate ==
    \A i \in ParaIndexes :
        ~(/\ toc.content_start_index # -1
          /\ i >= toc.content_start_index
          /\ MainCandidate(i)
          /\ HeadingLevel(ParaAt(i)).level = 1)

\* C9: the function raises nothing; without a contents marker, without a
\* second first-chapter occurrence, or with no chapter from the main pass
\* the list is empty or holds only chapters of the fallback scan, and for a
\* package that cannot be read it is empty.
C9_NeverRaises ==
    /\ ~toc.raised
    /\ toc.pc \in {"open", "scan1", "located", "scan2", "check", "fallback", "build", "done"}
    /\ (toc.pc = "done" /\ ~doc.readable) => toc.toc_items = <<>>
    /\ (toc.pc \in {"build", "done"}
            /\ (~toc.found_toc \/ toc.content_start_index = -1))
           => (OnlyFallbackChapters /\ toc.sub_chapters = <<>>)
    /\ (toc.pc \in {"build", "done"} /\ doc.readable /\ NoMainChapterCandidate)
           => OnlyFallbackChapters
    /\ toc.pc = "fallback" => OnlyFallbackChapters
    /\ toc.pc = "done" => toc.toc_items = toc.main_chapters

\* a stream with a marker and no second first-chapter occurrence got its
\* chapters from the fallback scan
C9_Witness ==
    /\ Returned
    /\ toc.content_start_index = -1
    /\ toc.found_toc
    /\ toc.toc_items # <<>>

\* the label paragraph i starts with, <<>> when it starts with none
LabelOf(i) == ChapterName(StrippedText(ParaAt(i)))

\* the paragraphs behind the contents marker, up to b, that start with label
LabelledUpTo(label, b) ==
    {i \in ParaIndexes : toc.toc_start_index < i /\ i <= b /\ LabelOf(i) = label}

\* 0 for SEARCHING_TOC, 1 for IN_TOC, 2 for BODY
ScanPhase ==
    IF toc.found_content_start THEN 2 ELSE IF toc.found_toc /\ toc.in_toc_section THEN 1 ELSE 0

\* the first scan has ended
FirstScanEnded == doc.readable /\ toc.pc \notin {"open", "scan1"}

\* C18: the first scan moves only forward through SEARCHING_TOC, IN_TOC and
\* BODY; the TOC start is the first paragraph that is a contents marker;
\* labels in front of the marker are not counted; the body start is the
\* second paragraph behind the marker that starts with the first-chapter
\* label it starts with, the TOC end is the index in front of it, and the
\* TOC start is below the body start.
C18_FirstScanForward ==
    /\ [][ScanPhase' >= ScanPhase]_vars
    /\ [](toc.found_toc <=> toc.toc_start_index # -1)
    /\ [](toc.found_content_start <=> toc.content_start_index # -1)
    /\ [](toc.toc_start_index # -1 =>
             /\ IsContentsMarker(StrippedText(ParaAt(toc.toc_start_index)))
             /\ \A i \in ParaIndexes :
                    i < toc.toc_start_index => ~IsContentsMarker(StrippedText(ParaAt(i))))
    /\ [](FirstScanEnded =>
             (toc.found_toc <=> \E i \in ParaIndexes : IsContentsMarker(StrippedText(ParaAt(i)))))
    /\ [](toc.content_start_index # -1 =>
             /\ toc.toc_start_index # -1
             /\ toc.toc_start_index < toc.content_start_index
             /\ toc.toc_end_index = toc.content_start_index - 1
             /\ LabelOf(toc.content_start_index) \in FirstChapterLabels
             /\ Cardinality(LabelledUpTo(LabelOf(toc.content_start_index),
                                         toc.content_start_index)) = 2)
    /\ []((FirstScanEnded /\ toc.content_start_index = -1 /\ toc.found_toc) =>
             \A label \in FirstChapterLabels :
                 Cardinality(LabelledUpTo(label, Len(doc.paragraphs))) < 2)

\* the body start was found behind a marker that has a first-chapter label
\* in front of it and a paragraph with the other first-chapter label behind it
C18_Witness ==
    /\ FirstScanEnded
    /\ toc.content_start_index # -1
    /\ \E i \in ParaIndexes : i < toc.toc_start_index /\ StartsWithFirstLabel(i)
    /\ \E j \in ParaIndexes :
           /\ toc.toc_start_index < j /\ j < toc.content_start_index
           /\ StartsWithFirstLabel(j)
           /\ LabelOf(j) # LabelOf(toc.content_start_index)

\* the nodes the main pass has accepted: the second scan is running or has
\* just ended
MainPassNodes == IF toc.pc \in {"scan2", "check"} THEN Accepted ELSE <<>>

\* the style name of the paragraph names level 1: 'heading 1...' in any
\* case, or a name that holds the Chinese for heading and 1
LevelOneStyleName(para) ==
    \/ Take(Lower(para.style), 9) = <<"h", "e", "a", "d", "i", "n", "g", " ", "1">>
    \/ Contains(para.style, <<"BIAO", "TI", " ", "1">>)
    \/ Contains(para.style, <<"BIAO", "TI", "1">>)

\* a run of the paragraph has a font size above 14pt
HasLargeRun(para) == \E k \in 1..Len(para.runs) : para.runs[k].size > 14

\* C19: every level-1 node of the main pass comes from a paragraph with a
\* run above 14pt or a level-1 style name; a paragraph that is of level 1
\* without either is no node of the main pass.
C19_LevelOneFontOrStyle ==
    /\ \A x \in 1..Len(MainPassNodes) :
           MainPassNodes[x].level = 1 =>
               \/ HasLargeRun(ParaAt(MainPassNodes[x].index))
               \/ LevelOneStyleName(ParaAt(MainPassNodes[x].index))
    /\ \A i \in ParaIndexes :
           (/\ HeadingLevel(ParaAt(i)).level = 1
            /\ ~HasLargeRun(ParaAt(i))
            /\ ~LevelOneStyleName(ParaAt(i)))
               => \A x \in 1..Len(MainPassNodes) : MainPassNodes[x].index # i

\* the main pass has read a paragraph of level 1 by its text pattern alone
\* and one of level 1 by a heading style without a level, took neither, and
\* took one of level 1 for its large font
C19_Witness ==
    /\ toc.pc = "check"
    /\ \E x \in 1..Len(MainPassNodes) :
           /\ MainPassNodes[x].level = 1
           /\ HasLargeRun(ParaAt(MainPassNodes[x].index))
           /\ ~LevelOneStyleName(ParaAt(MainPassNodes[x].index))
    /\ \E i \in ParaIndexes :
           /\ i >= toc.content_start_index
           /\ ParaAt(i).style = HeadingNoLevel
           /\ HeadingLevel(ParaAt(i)).level = 1
           /\ ~HasPunctuation(StrippedText(ParaAt(i)))
           /\ \A x \in 1..Len(MainPassNodes) : MainPassNodes[x].index # i
    /\ \E i \in ParaIndexes :
           /\ i >= toc.content_start_index
           /\ ~StyleIsHeading(ParaAt(i).style)
           /\ ParaAt(i).runs # <<>> /\ ~is_bold(ParaAt(i))
           /\ HeadingLevel(ParaAt(i)).level = 1
           /\ \A x \in 1..Len(MainPassNodes) : MainPassNodes[x].index # i

\* C20: no node of the main pass has an original text that holds one of the
\* punctuation characters; the original text is the stripped text of the
\* paragraph.
C20_NoPunctuationNode ==
    \A x \in 1..Len(MainPassNodes) :
        /\ MainPassNodes[x].original_text = StrippedText(ParaAt(MainPassNodes[x].index))
        /\ \A k \in 1..Len(MainPassNodes[x].original_text) :
               MainPassNodes[x].original_text[k] \notin Punctuation

\* the main pass has read a Heading 1 paragraph with a full-width colon that
\* is no personal information, and did not take it, and took another one
C20_Witness ==
    /\ toc.pc = "check"
    /\ MainPassNodes # <<>>
    /\ \E i \in ParaIndexes :
           /\ i >= toc.content_start_index
           /\ ParaAt(i).style = Heading1
           /\ "FWCOLON" \in SeqSet(StrippedText(ParaAt(i)))
           /\ ~is_personal_info(StrippedText(ParaAt(i)))
           /\ \A x \in 1..Len(MainPassNodes) : MainPassNodes[x].index # i

---------------------------------------------------------------------------
(* standardize_chapter_name applied once and again to its own result.      *)

\* the chapter and section labels a text starts with, or none
StdLabels == {<<>>, <<"DI", "YI", "ZHANG">>, <<"DI", "ER", "JIE">>}

\* what follows the label, piece by piece
StdPieces == {<<" ">>, <<"1">>, <<"2">>, <<"A">>, <<"XU", "LUN">>}

MaxPieces == 3

RECURSIVE Flatten(_)
Flatten(q) == IF q = <<>> THEN <<>> ELSE Head(q) \o Flatten(Tail(q))

StdTexts ==
    {label \o Flatten(q) : label \in StdLabels, q \in SeqsUpTo(StdPieces, MaxPieces)}

StdInit ==
    /\ std \in {[pc |-> "start", text |-> t, once |-> <<>>, twice |-> <<>>] : t \in StdTexts}
    /\ doc = Idle
    /\ toc = Idle
    /\ tex = Idle
    /\ pkg = Idle
    /\ conv = Idle
    /\ math = Idle
    /\ jobs = Idle
    /\ head = Idle
    /\ session = Idle
    /\ calls = Idle

\* standardize_chapter_name(text)
StandardizeOnce ==
    /\ std.pc = "start"
    /\ std' = [std EXCEPT !.once = standardize_chapter_name(std.text), !.pc = "once"]
    /\ UNCHANGED <<doc, toc, tex, pkg, conv, math, jobs, head, session, calls>>

\* standardize_chapter_name(standardize_chapter_name(text))
StandardizeAgain ==
    /\ std.pc = "once"
    /\ std' = [std EXCEPT !.twice = standardize_chapter_name(std.once), !.pc = "twice"]
    /\ UNCHANGED <<doc, toc, tex, pkg, conv, math, jobs, head, session, calls>>

StdNext ==
    \/ StandardizeOnce
    \/ StandardizeAgain

SpecStd == StdInit /\ [][StdNext]_vars

\* C6: standardize_chapter_name is idempotent: applied to its own result it
\* returns that result, also for a label followed by several digit groups
\* separated by white space.
C6_Idempotent == std.pc = "twice" => std.twice = std.once

---------------------------------------------------------------------------
(* Docx2HtmlConverter._preprocess_latex, docx2html.py lines 369-416, one   *)
(* step per numbered section of the method.  A fragment is a sequence of   *)
(* characters; MINUS is U+2212, INFTY is U+221E, ENDASH U+2013, EMDASH     *)
(* U+2014.                                                                 *)

\* str.count(p): the occurrences of p in s from position i on, none
\* overlapping another
RECURSIVE CountFrom(_, _, _)
CountFrom(s, p, i) ==
    IF i + Len(p) - 1 > Len(s) THEN 0
    ELSE IF OccursAt(s, p, i) THEN 1 + CountFrom(s, p, i + Len(p))
    ELSE CountFrom(s, p, i + 1)

Count(s, p) == CountFrom(s, p, 1)

\* str.replace(old, new)
RECURSIVE ReplaceFrom(_, _, _, _)
ReplaceFrom(s, old, new, i) ==
    IF i > Len(s) THEN <<>>
    ELSE IF OccursAt(s, old, i) THEN new \o ReplaceFrom(s, old, new, i + Len(old))
    ELSE <<s[i]>> \o ReplaceFrom(s, old, new, i + 1)

Replace(s, old, new) == ReplaceFrom(s, old, new, 1)

\* s * n
RECURSIVE Repeat(_, _)
Repeat(s, n) == IF n <= 0 THEN <<>> ELSE s \o Repeat(s, n - 1)

Left == <<"\\", "l", "e", "f", "t">>

Right == <<"\\", "r", "i", "g", "h", "t">>

RightDot == <<"\\", "r", "i", "g", "h", "t", ".">>

Infty == <<"\\", "i", "n", "f", "t", "y">>

MathFormulaPlaceholder == <<"[", "M", "a", "t", "h", " ", "F", "o", "r", "m", "u", "l", "a", "]">>

\* lines 386-388
FixedInfinity(latex) ==
    LET t1 == Replace(latex, <<"MINUS">> \o Infty, <<"-">> \o Infty)
        t2 == Replace(t1, <<"MINUS", "INFTY">>, <<"-">> \o Infty)
    IN  Replace(t2, <<"MINUS">> \o Infty, <<"-">> \o Infty)

\* Balanced appending one \right. however many are missing
Balanced_OneRightOnly(latex) ==
    IF Count(latex, Left) > Count(latex, Right)
    THEN latex \o <<" ">> \o RightDot \o <<" ">>
    ELSE latex

\* lines 391-396
Balanced(latex) ==
    LET left_count == Count(latex, Left)
        right_count == Count(latex, Right)
    IN  IF left_count > right_count
        THEN latex \o <<" ">> \o Repeat(RightDot \o <<" ">>, left_count - right_count)
        ELSE latex

\* line 400
RelationSymbols == <<<<"\\", "g", "e", "q">>, <<"\\", "l", "e", "q">>, <<">">>, <<"<">>, <<"=">>>>

\* lines 402-405 for one symbol
SpacedOne(latex, symbol) ==
    LET spaced == <<" ">> \o symbol \o <<" ">>
        t1 == Replace(latex, <<"i">> \o symbol \o <<"j">>, <<"i">> \o spaced \o <<"j">>)
        t2 == Replace(t1, <<"x">> \o symbol \o <<"y">>, <<"x">> \o spaced \o <<"y">>)
        t3 == Replace(t2, <<"a">> \o symbol \o <<"b">>, <<"a">> \o spaced \o <<"b">>)
    IN  Replace(t3, <<"n">> \o symbol \o <<"m">>, <<"n">> \o spaced \o <<"m">>)

\* lines 400-405
RECURSIVE SpacedFrom(_, _)
SpacedFrom(latex, k) ==
    IF k > Len(RelationSymbols) THEN latex
    ELSE SpacedFrom(SpacedOne(latex, RelationSymbols[k]), k + 1)

Spaced(latex) == SpacedFrom(latex, 1)

\* [-−–—]
Dashes == {"-", "MINUS", "ENDASH", "EMDASH"}

\* the position in front of the longest run of characters of class C that
\* ends at r: a greedy C* read back from r
RECURSIVE BackRun(_, _, _)
BackRun(s, r, C) == IF r >= 1 /\ s[r] \in C THEN BackRun(s, r - 1, C) ELSE r

\* the position in front of lit when s[1..r] ends with lit, else -1
BackLit(s, r, lit) ==
    IF r >= Len(lit) /\ OccursAt(s, lit, r - Len(lit) + 1) THEN r - Len(lit) ELSE -1

\* the position in front of \s*\d+\s* ending at r, with one digit at least,
\* else -1
BackNumber(s, r) ==
    LET a == BackRun(s, r, Whitespace)
        b == BackRun(s, a, Digits)
    IN  IF r < 0 \/ b = a THEN -1 ELSE BackRun(s, b, Whitespace)

\* the position in front of \s*\d+\s*[-−–—]\s*\d+\s* ending at r, else -1
BackRange(s, r) ==
    LET a == BackNumber(s, r)
    IN  IF a < 1 \/ s[a] \notin Dashes THEN -1 ELSE BackNumber(s, a - 1)

\* the position in front of the body that ends at a, the range of two
\* numbers (ranged TRUE) or one number (ranged FALSE); -1 when a is -1
BackBody(s, ranged, a) ==
    IF a < 0 THEN -1 ELSE IF ranged THEN BackRange(s, a) ELSE BackNumber(s, a)

\* the position in front of open when s[1..b] ends with it; -1 when b is -1
BackOpen(s, open, b) == IF b < 0 THEN -1 ELSE BackLit(s, b, open)

\* s without the match, stripped
CutAt(s, c) == Strip(IF c < 0 THEN s ELSE SubSeq(s, 1, c))

\* re.sub(open + body + close + r'\s*$', '', s).strip(): the match is read
\* back from the end of s
NumberingCut(s, open, ranged, close) ==
    CutAt(s, BackOpen(s, open,
                 BackBody(s, ranged, BackLit(s, BackRun(s, Len(s), Whitespace), close))))

\* _remove_formula_numbering, lines 418-441
remove_formula_numbering(latex_text) ==
    LET t1 == NumberingCut(latex_text, Left \o <<"(">>, TRUE, Right \o <<")">>)
        t2 == NumberingCut(t1, <<"(">>, TRUE, <<")">>)
        t3 == NumberingCut(t2, Left \o <<"(">>, FALSE, Right \o <<")">>)
    IN  NumberingCut(t3, <<"(">>, FALSE, <<")">>)

BeginBrace == <<"\\", "b", "e", "g", "i", "n", "{">>

EndBrace == <<"\\", "e", "n", "d", "{">>

\* line 412
Environments ==
    <<<<"c", "a", "s", "e", "s">>, <<"a", "l", "i", "g", "n">>, <<"m", "a", "t", "r", "i", "x">>,
      <<"p", "m", "a", "t", "r", "i", "x">>, <<"b", "m", "a", "t", "r", "i", "x">>>>

\* lines 412-414, from the k-th environment on
RECURSIVE ClosedFrom(_, _)
ClosedFrom(latex, k) ==
    IF k > Len(Environments) THEN latex
    ELSE LET env == Environments[k]
         IN  IF /\ Contains(latex, BeginBrace \o env \o <<"}">>)
                /\ ~Contains(latex, EndBrace \o env \o <<"}">>)
             THEN ClosedFrom(latex \o EndBrace \o env \o <<"}">>, k + 1)
             ELSE ClosedFrom(latex, k + 1)

\* lines 411-414
Closed(latex) == IF Contains(latex, BeginBrace) THEN ClosedFrom(latex, 1) ELSE latex

\* what fragments are made of
TexPieces ==
    {<<"\\", "l", "e", "f", "t", "(">>,
     <<"\\", "r", "i", "g", "h", "t", ")">>,
     <<"\\", "l", "e", "f", "t", "a", "r", "r", "o", "w">>,
     <<"\\", "r", "i", "g", "h", "t", "a", "r", "r", "o", "w">>,
     <<"(">>, <<")">>, <<"1">>, <<"2", "-", "1">>, <<" ">>, <<"a", "=", "b">>,
     <<"\\", "b", "e", "g", "i", "n", "{", "c", "a", "s", "e", "s", "}">>,
     <<"MINUS", "INFTY">>}

MaxTexPieces == 3

Fragments ==
    {Flatten(q) : q \in SeqsUpTo(TexPieces, MaxTexPieces)} \cup {MathFormulaPlaceholder}

TexInit ==
    /\ tex \in {[pc |-> "start", input |-> f, latex |-> f] : f \in Fragments}
    /\ doc = Idle
    /\ toc = Idle
    /\ std = Idle
    /\ pkg = Idle
    /\ conv = Idle
    /\ math = Idle
    /\ jobs = Idle
    /\ head = Idle
    /\ session = Idle
    /\ calls = Idle

\* lines 379-388: the fragment is returned as it is when it is empty or
\* the placeholder, else the infinity signs are repaired
FixInfinity ==
    /\ tex.pc = "start"
    /\ tex' = IF tex.latex = <<>> \/ tex.latex = MathFormulaPlaceholder
              THEN [tex EXCEPT !.pc = "done"]
              ELSE [tex EXCEPT !.latex = FixedInfinity(@), !.pc = "balance"]
    /\ UNCHANGED <<doc, toc, std, pkg, conv, math, jobs, head, session, calls>>

\* lines 391-396
BalanceLeftRight ==
    /\ tex.pc = "balance"
    /\ tex' = [tex EXCEPT !.latex = Balanced(@), !.pc = "spacing"]
    /\ UNCHANGED <<doc, toc, std, pkg, conv, math, jobs, head, session, calls>>

\* lines 400-405
SpaceRelations ==
    /\ tex.pc = "spacing"
    /\ tex' = [tex EXCEPT !.latex = Spaced(@), !.pc = "numbering"]
    /\ UNCHANGED <<doc, toc, std, pkg, conv, math, jobs, head, session, calls>>

\* line 408
RemoveNumbering ==
    /\ tex.pc = "numbering"
    /\ tex' = [tex EXCEPT !.latex = remove_formula_numbering(@), !.pc = "environments"]
    /\ UNCHANGED <<doc, toc, std, pkg, conv, math, jobs, head, session, calls>>

\* lines 411-416
CloseEnvironments ==
    /\ tex.pc = "environments"
    /\ tex' = [tex EXCEPT !.latex = Closed(@), !.pc = "done"]
    /\ UNCHANGED <<doc, toc, std, pkg, conv, math, jobs, head, session, calls>>

TexNext ==
    \/ FixInfinity
    \/ BalanceLeftRight
    \/ SpaceRelations
    \/ RemoveNumbering
    \/ CloseEnvironments

SpecTex == TexInit /\ [][TexNext]_vars

---------------------------------------------------------------------------
(* Properties of _preprocess_latex, checked under SpecTex.                 *)

\* the fragment returned is the repaired input without its leading white
\* space, with n tokens "\right." behind it, each after one space, and maybe
\* the \end{...} of line 414 behind them
AppendedRightDots(n) ==
    \E tail \in {<<>>} \cup
                {EndBrace \o Environments[k] \o <<"}">> : k \in 1..Len(Environments)} :
        tex.latex =
            LStrip(Spaced(FixedInfinity(tex.input)))
                \o Repeat(<<" ">> \o RightDot, n) \o tail

---------------------------------------------------------------------------
(* Docx2HtmlConverter.convert_docx_to_html, docx2html.py lines 44-115 and  *)
(* the methods it calls.  An XML element is [tag, embed, text, omml,       *)
(* children]: tag is the local name, embed the r:embed attribute of a      *)
(* blip, text the text of a w:t, omml what omml_to_latex returns for an    *)
(* oMath.  An image id is <<"rId1">>, the empty embed is <<>>.  The HTML   *)
(* is kept as a sequence of items [kind, val], val a sequence of strings.  *)

None == <<"None">>

Elem(tag, children) ==
    [tag |-> tag, embed |-> <<>>, text |-> <<>>, omml |-> <<>>, children |-> children]

Blip(image_id) == [Elem("blip", <<>>) EXCEPT !.embed = image_id]

TextElem(text) == [Elem("t", <<>>) EXCEPT !.text = text]

OMath(latex) == [Elem("oMath", <<>>) EXCEPT !.omml = latex]

\* w:drawing > wp:inline > a:graphic > a:graphicData > pic:pic > pic:blipFill > a:blip
Drawing(image_id) ==
    Elem("drawing", <<Elem("inline", <<Elem("graphic", <<Elem("blipFill", <<Blip(image_id)>>)>>)>>)>>)

\* __init__, lines 31-34: the namespaces, each with its braces
ns_math == "{http://schemas.openxmlformats.org/officeDocument/2006/math}"

ns_w == "{http://schemas.openxmlformats.org/wordprocessingml/2006/main}"

ns_a == "{http://schemas.openxmlformats.org/drawingml/2006/main}"

\* element.tag: the namespace of the element in braces, then its local
\* name; the elements of the model carry their local name
QualifiedTag(element) ==
    (CASE element.tag \in {"oMath", "oMathPara"} -> ns_math
       [] element.tag \in {"blip", "graphic"} -> ns_a
       [] element.tag = "inline" ->
              "{http://schemas.openxmlformats.org/drawingml/2006/wordprocessingDrawing}"
       [] element.tag = "blipFill" ->
              "{http://schemas.openxmlformats.org/drawingml/2006/picture}"
       [] OTHER -> ns_w) \o element.tag

\* element.iter(): the element and its descendants in document order
RECURSIVE Iter(_)
RECURSIVE IterAll(_)
Iter(element) == <<element>> \o IterAll(element.children)

IterAll(elements) ==
    IF elements = <<>> THEN <<>> ELSE Iter(Head(elements)) \o IterAll(Tail(elements))

\* the values of the embed attributes of the blip elements of nodes
RECURSIVE EmbedsOf(_)
EmbedsOf(nodes) ==
    IF nodes = <<>> THEN <<>>
    ELSE (IF Head(nodes).tag = "blip" /\ Head(nodes).embed # <<>>
          THEN <<Head(nodes).embed>> ELSE <<>>) \o EmbedsOf(Tail(nodes))

\* lines 157-165 for the nodes of element.iter()
RECURSIVE EmbedsUnderDrawings(_)
EmbedsUnderDrawings(nodes) ==
    IF nodes = <<>> THEN <<>>
    ELSE (IF Head(nodes).tag = "drawing" THEN EmbedsOf(Iter(Head(nodes))) ELSE <<>>)
             \o EmbedsUnderDrawings(Tail(nodes))

\* _find_embedded_image_ids, lines 153-167
find_embedded_image_ids(element) == EmbedsUnderDrawings(Iter(element))

\* element has a node of this tag: _find_omath_elements, _find_drawing_elements
HasNode(element, tag) == \E k \in 1..Len(Iter(element)) : Iter(element)[k].tag = tag

\* _has_math_or_images, lines 472-484
has_math_or_images(paragraph) ==
    HasNode(paragraph.element, "oMath") \/ HasNode(paragraph.element, "drawing")

\* html.escape of one character
EscapeChar(c) ==
    CASE c = "&" -> <<"&", "a", "m", "p", ";">>
      [] c = "<" -> <<"&", "l", "t", ";">>
      [] c = ">" -> <<"&", "g", "t", ";">>
      [] c = "\"" -> <<"&", "q", "u", "o", "t", ";">>
      [] c = "'" -> <<"&", "#", "x", "2", "7", ";">>
      [] OTHER -> <<c>>

\* html.escape
RECURSIVE Escape(_)
Escape(text) == IF text = <<>> THEN <<>> ELSE EscapeChar(Head(text)) \o Escape(Tail(text))

Item(kind, val) == [kind |-> kind, val |-> val]

\* _save_image, lines 443-470: the file name, or None when reading the part
\* or writing the file raises (no image_dir, no blob in the target part)
SaveImage_IgnoresFailure(self, image_id) ==
    <<"image_">> \o image_id \o self.relationship_map[image_id].ext

save_image(self, image_id) ==
    IF self.image_dir # None /\ self.relationship_map[image_id].blob
    THEN <<"image_">> \o image_id \o self.relationship_map[image_id].ext
    ELSE None

\* lines 243-247 and 306-310: the tag, the count and the id of an image
\* that was saved
AppendImage(w, image_id, image_filename) ==
    IF image_filename # None
    THEN [w EXCEPT !.parts = Append(@, Item("img", image_filename)),
                   !.self.stats.images = @ + 1,
                   !.self.processed_image_ids = @ \cup {image_id}]
    ELSE w

\* ProcessImage without the test of processed_image_ids
ProcessImage_NoProcessedCheck(w, image_id) ==
    IF image_id \in DOMAIN w.self.relationship_map
    THEN AppendImage(w, image_id, save_image(w.self, image_id))
    ELSE w

\* lines 242-247 and 303-310, one image_id; w is [self, parts], the
\* converter and the result_parts of the paragraph
ProcessImage(w, image_id) ==
    IF image_id \notin w.self.processed_image_ids
           /\ image_id \in DOMAIN w.self.relationship_map
    THEN AppendImage(w, image_id, save_image(w.self, image_id))
    ELSE w

\* lines 241-247 and 300-310
RECURSIVE ProcessImages(_, _)
ProcessImages(w, image_ids) ==
    IF image_ids = <<>> THEN w
    ELSE CHOOSE r \in {ProcessImages(w1, Tail(image_ids)) :
                          w1 \in {ProcessImage(w, Head(image_ids))}} : TRUE

\* _preprocess_latex, lines 369-416, each step on the value of the step
\* before
preprocess_latex(latex) ==
    IF latex = <<>> \/ latex = MathFormulaPlaceholder THEN latex
    ELSE LET fixed == {FixedInfinity(latex)}
             balanced == {Balanced(v) : v \in fixed}
             spaced == {Spaced(v) : v \in balanced}
             unnumbered == {remove_formula_numbering(v) : v \in spaced}
         IN  CHOOSE v \in {Closed(u) : u \in unnumbered} : TRUE

DisplayMathLen == 50

\* line 266
DisplayCommands ==
    {<<"\\", "f", "r", "a", "c">>, <<"\\", "s", "u", "m">>, <<"\\", "i", "n", "t">>,
     <<"\\", "p", "r", "o", "d">>}

\* lines 265-266
IsDisplayMath(latex_formula) ==
    \/ Contains(latex_formula, <<"\n">>)
    \/ StartsWith(Strip(latex_formula), BeginBrace)
    \/ Len(latex_formula) > DisplayMathLen
    \/ \E cmd \in DisplayCommands : Contains(latex_formula, cmd)

\* lines 265-275 (in_run FALSE) and 357-359 (in_run TRUE): the formula in
\* its delimiters and its count
AppendMath(w, latex_formula, in_run) ==
    IF ~in_run /\ IsDisplayMath(latex_formula)
    THEN [w EXCEPT !.parts = Append(@, Item("display_math", latex_formula)),
                   !.self.stats.display_math = @ + 1]
    ELSE [w EXCEPT !.parts = Append(@, Item("inline_math", latex_formula)),
                   !.self.stats.inline_math = @ + 1]

\* lines 258-275 (in_run FALSE) and 350-359 (in_run TRUE); child.omml is
\* what omml_to_latex returns for the element
ProcessMath(w, child, in_run) ==
    IF child.omml # <<>> /\ child.omml # MathFormulaPlaceholder
    THEN AppendMath(w, preprocess_latex(child.omml), in_run)
    ELSE w

\* lines 325-346: the format the run properties are searched for, and the
\* tag that wraps the text; the two vertAlign entries stand for the paths
\* with the predicate on w:val
FormatTags ==
    <<[prop |-> "b", tag |-> "strong"], [prop |-> "i", tag |-> "em"],
      [prop |-> "u", tag |-> "u"], [prop |-> "strike", tag |-> "s"],
      [prop |-> "superscript", tag |-> "sup"], [prop |-> "subscript", tag |-> "sub"]>>

\* the path of lines 322-346 for a local name: './/{' + self.ns_w + '}' +
\* name, where self.ns_w holds its own braces
FormatPath(name) == "{" \o ns_w \o "}" \o name

\* element.find('.//' + tag): the first node below element whose tag is tag
Find(element, tag) ==
    LET below == IterAll(element.children)
        found == {k \in 1..Len(below) : QualifiedTag(below[k]) = tag}
    IN  IF found = {} THEN <<>>
        ELSE <<below[CHOOSE k \in found : \A x \in found : k <= x]>>

\* line 322
RunProps(run_element) == Find(run_element, FormatPath("rPr"))

\* lines 325-346, from the k-th format on
RECURSIVE FormattedFrom(_, _, _)
FormattedFrom(content, run_props, k) ==
    IF k > Len(FormatTags) THEN content
    ELSE IF Find(run_props, FormatPath(FormatTags[k].prop)) # <<>>
         THEN FormattedFrom(<<"<" \o FormatTags[k].tag \o ">">> \o content
                                \o <<"</" \o FormatTags[k].tag \o ">">>,
                            run_props, k + 1)
         ELSE FormattedFrom(content, run_props, k + 1)

\* lines 323-346: found is what find returned, <<>> for None
FormattedBy(found, content) ==
    IF found = <<>> THEN content ELSE FormattedFrom(content, found[1], 1)

\* lines 322-348
Formatted(run_element, content) == FormattedBy(RunProps(run_element), content)

\* _process_run_element, lines 285-367
RECURSIVE process_run_element(_, _)
RECURSIVE ProcessRunChildren(_, _, _)
process_run_element(w, run_element) ==
    CHOOSE r \in {ProcessRunChildren(w1, run_element, 1) :
                     w1 \in {ProcessImages(w, find_embedded_image_ids(run_element))}} : TRUE

\* lines 313-365, from the k-th child on
ProcessRunChildren(w, run_element, k) ==
    IF k > Len(run_element.children) THEN w
    ELSE LET child == run_element.children[k]
             w1 == IF child.tag = "t"
                   THEN IF child.text # <<>>
                        THEN [w EXCEPT !.parts =
                                 Append(@, Item("text", Formatted(run_element, Escape(child.text))))]
                        ELSE w
                   ELSE IF child.tag = "oMath" THEN ProcessMath(w, child, TRUE)
                   ELSE process_run_element(w, child)
         IN  CHOOSE r \in {ProcessRunChildren(w2, run_element, k + 1) : w2 \in {w1}} : TRUE

\* lines 232-247, from the k-th child of the paragraph element on
RECURSIVE ParagraphLevelImages(_, _, _)
ParagraphLevelImages(w, element, k) ==
    IF k > Len(element.children) THEN w
    ELSE IF element.children[k].tag = "r" THEN ParagraphLevelImages(w, element, k + 1)
    ELSE CHOOSE r \in {ParagraphLevelImages(w1, element, k + 1) :
                          w1 \in {ProcessImages(w, find_embedded_image_ids(element.children[k]))}} :
             TRUE

\* _process_paragraph_element_recursively, lines 215-283
RECURSIVE process_paragraph_element_recursively(_, _)
RECURSIVE ProcessChildren(_, _, _)
process_paragraph_element_recursively(w, element) ==
    CHOOSE r \in {ProcessChildren(w1, element, 1) :
                     w1 \in {IF element.tag = "p" THEN ParagraphLevelImages(w, element, 1)
                              ELSE w}} : TRUE

\* lines 250-281, from the k-th child on
ProcessChildren(w, element, k) ==
    IF k > Len(element.children) THEN w
    ELSE LET child == element.children[k]
             w1 == IF child.tag = "r" THEN process_run_element(w, child)
                   ELSE IF child.tag = "oMath" THEN ProcessMath(w, child, FALSE)
                   ELSE process_paragraph_element_recursively(w, child)
         IN  CHOOSE r \in {ProcessChildren(w2, element, k + 1) : w2 \in {w1}} : TRUE

\* the text of the w:t children of a run
RECURSIVE TextOfRun(_)
TextOfRun(children) ==
    IF children = <<>> THEN <<>>
    ELSE (IF Head(children).tag = "t" THEN Head(children).text ELSE <<>>)
             \o TextOfRun(Tail(children))

\* paragraph.text: the text of the runs of the paragraph
RECURSIVE TextOfRuns(_)
TextOfRuns(children) ==
    IF children = <<>> THEN <<>>
    ELSE (IF Head(children).tag = "r" THEN TextOfRun(Head(children).children) ELSE <<>>)
             \o TextOfRuns(Tail(children))

ParagraphText(paragraph) == TextOfRuns(paragraph.element.children)

\* lines 186-200; the style names of the model are in lower case
style_mapping(style_name) ==
    CASE style_name = "heading 1" -> "h1"
      [] style_name = "heading 2" -> "h2"
      [] style_name = "heading 3" -> "h3"
      [] style_name = "heading 4" -> "h4"
      [] style_name = "heading 5" -> "h5"
      [] style_name = "heading 6" -> "h6"
      [] style_name = "title" -> "h1"
      [] style_name = "subtitle" -> "h2"
      [] OTHER -> "p"

\* lines 210-213: the content w.parts of the walk in the tag of the
\* paragraph, nothing when there is no content
Wrapped(html_tag, w) ==
    IF w.parts # <<>>
    THEN [self |-> w.self,
          html |-> <<Item("open", <<html_tag>>)>> \o w.parts
                       \o <<Item("close", <<html_tag>>)>>]
    ELSE [self |-> w.self, html |-> <<>>]

\* _convert_paragraph_to_html_improved, lines 169-213: the converter after
\* the paragraph and the HTML of the paragraph
convert_paragraph_to_html_improved(self, paragraph) ==
    IF Strip(ParagraphText(paragraph)) = <<>> /\ ~has_math_or_images(paragraph)
    THEN [self |-> self, html |-> <<>>]
    ELSE IF style_mapping(paragraph.style) # "p" /\ Strip(ParagraphText(paragraph)) # <<>>
    THEN [self |-> self,
          html |-> <<Item("open", <<style_mapping(paragraph.style)>>),
                     Item("text", Escape(Strip(ParagraphText(paragraph)))),
                     Item("close", <<style_mapping(paragraph.style)>>)>>]
    ELSE Wrapped(style_mapping(paragraph.style),
                 process_paragraph_element_recursively(
                     [self |-> self, parts |-> <<>>], paragraph.element))

\* line 511: para_html.replace('<p>', '').replace('</p>', '<br/>')
RECURSIVE WithoutParagraphTags(_)
WithoutParagraphTags(html) ==
    IF html = <<>> THEN <<>>
    ELSE (IF Head(html) = Item("open", <<"p">>) THEN <<>>
          ELSE IF Head(html) = Item("close", <<"p">>) THEN <<Item("br", <<>>)>>
          ELSE <<Head(html)>>) \o WithoutParagraphTags(Tail(html))

\* lines 509-512: cell_content with para_html, the HTML r.html of one
\* paragraph
WithParagraph(cell_content, r) ==
    [self |-> r.self,
     cell_content |-> IF r.html # <<>>
                      THEN Append(cell_content, WithoutParagraphTags(r.html))
                      ELSE cell_content]

\* lines 507-512, from the k-th paragraph of the cell on: the converter and
\* cell_content, a list of the HTML of the paragraphs
RECURSIVE ConvertCellParagraphs(_, _, _)
ConvertCellParagraphs(c, paragraphs, k) ==
    IF k > Len(paragraphs) THEN c
    ELSE CHOOSE r \in
             {ConvertCellParagraphs(WithParagraph(c.cell_content, para_html), paragraphs, k + 1) :
                 para_html \in {convert_paragraph_to_html_improved(c.self, paragraphs[k])}} :
             TRUE

\* lines 515-516
WithoutLastBreak(cell_content) ==
    LET n == Len(cell_content)
    IN  IF n > 0 /\ cell_content[n][Len(cell_content[n])] = Item("br", <<>>)
        THEN [cell_content EXCEPT ![n] = SubSeq(@, 1, Len(@) - 1)]
        ELSE cell_content

\* lines 515-519: html_cells with the cell whose content is c.cell_content
WithCell(html, c) ==
    [self |-> c.self,
     html |-> html \o <<Item("open", <<"td">>)>>
                  \o Flatten(WithoutLastBreak(c.cell_content))
                  \o <<Item("close", <<"td">>)>>]

\* lines 504-519, one cell: cell.paragraphs are the paragraphs right below
\* the cell, a table nested in the cell is not among them
ConvertCell(t, cell) ==
    WithCell(t.html,
             ConvertCellParagraphs([self |-> t.self, cell_content |-> <<>>],
                                   cell.paragraphs, 1))

\* lines 500-521, one row
RECURSIVE ConvertCells(_, _, _)
ConvertCells(t, cells, k) ==
    IF k > Len(cells) THEN t
    ELSE CHOOSE r \in {ConvertCells(t1, cells, k + 1) : t1 \in {ConvertCell(t, cells[k])}} : TRUE

ConvertRow(t, row) ==
    LET opened == [t EXCEPT !.html = @ \o <<Item("open", <<"tr">>)>>]
        r == ConvertCells(opened, row, 1)
    IN  [r EXCEPT !.html = @ \o <<Item("close", <<"tr">>)>>]

RECURSIVE ConvertRows(_, _, _)
ConvertRows(t, rows, k) ==
    IF k > Len(rows) THEN t
    ELSE CHOOSE r \in {ConvertRows(t1, rows, k + 1) : t1 \in {ConvertRow(t, rows[k])}} : TRUE

\* _convert_table_to_html, lines 486-523
convert_table_to_html(self, table) ==
    LET t == ConvertRows([self |-> self, html |-> <<Item("open", <<"table">>)>>],
                         table.rows, 1)
    IN  [t EXCEPT !.html = @ \o <<Item("close", <<"table">>)>>]

---------------------------------------------------------------------------
(* The packages convert_docx_to_html is run on.                            *)

\* an image part that can be read and written
GoodImage == [blob |-> TRUE, ext |-> <<".png">>]

\* a relationship whose target has no blob to read (an external target)
BrokenImage == [blob |-> FALSE, ext |-> <<".png">>]

Rid1 == <<"rId1">>

Rid2 == <<"rId2">>

Rid3 == <<"rId3">>

\* referenced in the document, absent from doc.part.rels
Rid9 == <<"rId9">>

\* doc.part.rels
PackageRels == (Rid1 :> GoodImage) @@ (Rid2 :> BrokenImage) @@ (Rid3 :> GoodImage)

Run(children) == Elem("r", children)

Bold == Elem("rPr", <<Elem("b", <<>>)>>)

BodyParagraph(style, children) ==
    [kind |-> "p", style |-> style, element |-> Elem("p", children), rows |-> <<>>]

BodyTable(rows) ==
    [kind |-> "tbl", style |-> "normal", element |-> Elem("tbl", <<>>), rows |-> rows]

Cell(paragraphs, tables) == [paragraphs |-> paragraphs, tables |-> tables]

\* w:sectPr, a child of the body that is no paragraph and no table
SectionProps ==
    [kind |-> "sectPr", style |-> "normal", element |-> Elem("sectPr", <<>>), rows |-> <<>>]

\* an image nested in a run, then text
B_RunImage == BodyParagraph("normal", <<Run(<<Drawing(Rid1)>>), Run(<<TextElem(<<"a">>)>>)>>)

\* an image right below the paragraph (in a hyperlink), the same image
\* nested in a run, then bold text
B_LinkImage ==
    BodyParagraph("normal",
        <<Elem("hyperlink", <<Run(<<Drawing(Rid1)>>)>>), Run(<<Drawing(Rid1)>>),
          Run(<<Bold, TextElem(<<"b", "&">>)>>)>>)

\* an image whose part cannot be saved, text behind it in the same run
B_Broken == BodyParagraph("normal", <<Run(<<Drawing(Rid2), TextElem(<<"c">>)>>)>>)

\* an image whose id is in no relationship, twice, text behind it
B_Absent ==
    BodyParagraph("normal",
        <<Elem("ins", <<Run(<<Drawing(Rid9)>>)>>), Run(<<Drawing(Rid9), TextElem(<<"d">>)>>)>>)

\* an image whose part cannot be saved and an image whose id is in no
\* relationship, text behind each
B_Unresolved ==
    BodyParagraph("normal",
        <<Run(<<Drawing(Rid2), TextElem(<<"c">>)>>),
          Elem("ins", <<Run(<<Drawing(Rid9)>>)>>), Run(<<Drawing(Rid9), TextElem(<<"d">>)>>)>>)

\* a heading with text and two references to one image
B_Heading ==
    BodyParagraph("heading 1",
        <<Run(<<TextElem(<<"h">>)>>), Run(<<Drawing(Rid3)>>), Run(<<Drawing(Rid3)>>)>>)

\* a heading without text that holds an image
B_HeadingImage == BodyParagraph("heading 2", <<Run(<<Drawing(Rid3)>>)>>)

\* a formula below the paragraph and one in a run
B_Math ==
    BodyParagraph("normal",
        <<OMath(<<"\\", "f", "r", "a", "c", "{", "1", "}", "{", "2", "}">>),
          Run(<<OMath(<<"\\", "l", "e", "f", "t", "(", "x">>)>>),
          OMath(MathFormulaPlaceholder)>>)

\* a paragraph with nothing in it
B_Empty == BodyParagraph("normal", <<Run(<<TextElem(<<" ">>)>>)>>)

\* a table of one row: a cell with two paragraphs, and a cell with one
\* paragraph and a nested table that holds an image
B_Table ==
    BodyTable(<<
        <<Cell(<<B_RunImage, B_Heading>>, <<>>),
          Cell(<<BodyParagraph("normal", <<Run(<<TextElem(<<"e">>)>>)>>)>>,
               <<BodyTable(<<<<Cell(<<B_HeadingImage>>, <<>>)>>>>)>>)>>
    >>)

\* text, then an image behind it in the same run
B_TextImage == BodyParagraph("normal", <<Run(<<TextElem(<<"x">>), Drawing(Rid3)>>)>>)

\* a fraction in a run
B_RunMath ==
    BodyParagraph("normal",
        <<Run(<<OMath(<<"\\", "f", "r", "a", "c", "{", "1", "}", "{", "2", "}">>)>>)>>)

\* a paragraph of one bold run "Header"
HeaderParagraph ==
    BodyParagraph("normal", <<Run(<<Bold, TextElem(<<"H", "e", "a", "d", "e", "r">>)>>)>>)

\* a table of one row of two cells, each with the bold text "Header"
B_HeaderTable ==
    BodyTable(<< <<Cell(<<HeaderParagraph>>, <<>>), Cell(<<HeaderParagraph>>, <<>>)>> >>)

BlockPool ==
    {B_RunImage, B_LinkImage, B_Broken, B_Absent, B_Unresolved, B_Heading,
     B_HeadingImage, B_Math, B_Empty, B_Table, B_TextImage, B_RunMath, B_HeaderTable,
     SectionProps}

MaxBlocks == 2

\* how often one converter is used
MaxRuns == 2

Packages ==
    {[body |-> b, rels |-> PackageRels, include_images |-> inc] :
        b \in SeqsUpTo(BlockPool, MaxBlocks), inc \in BOOLEAN}

---------------------------------------------------------------------------
(* convert_docx_to_html as a state machine: one step per block.            *)

\* __init__, lines 21-42
NewConverter ==
    [pc |-> "new",
     runs |-> 0,
     k |-> 0,
     stats |-> [images |-> 0, inline_math |-> 0, display_math |-> 0],
     processed_image_ids |-> {},
     html_content |-> <<>>,
     relationship_map |-> <<>>,
     image_dir |-> None,
     written |-> FALSE]

HtmlInit ==
    /\ pkg \in Packages
    /\ conv = NewConverter
    /\ doc = Idle
    /\ toc = Idle
    /\ std = Idle
    /\ tex = Idle
    /\ math = Idle
    /\ jobs = Idle
    /\ head = Idle
    /\ session = Idle
    /\ calls = Idle

\* lines 57-86
Started(self, package) ==
    [self EXCEPT !.pc = "blocks",
                 !.runs = @ + 1,
                 !.k = 0,
                 !.stats = [images |-> 0, inline_math |-> 0, display_math |-> 0],
                 !.processed_image_ids = {},
                 !.html_content = <<>>,
                 !.relationship_map = package.rels,
                 !.image_dir = IF package.include_images THEN <<"out_images">> ELSE None,
                 !.written = FALSE]

\* lines 57-86: the converter is new, or has finished a conversion
StartConversion ==
    /\ conv.pc \in {"new", "done"}
    /\ conv.runs < MaxRuns
    /\ conv' = Started(conv, pkg)
    /\ UNCHANGED <<doc, toc, std, tex, pkg, math, jobs, head, session, calls>>

\* lines 90-97: the HTML of one block item, nothing for what is neither a
\* paragraph nor a table
ConvertedBlock(self, block) ==
    IF block.kind = "p" THEN convert_paragraph_to_html_improved(self, block)
    ELSE IF block.kind = "tbl" THEN convert_table_to_html(self, block)
    ELSE [self |-> self, html |-> <<>>]

\* lines 89-97 and _iter_block_items, one child of the body
ConvertBlock ==
    /\ conv.pc = "blocks"
    /\ conv.k < Len(pkg.body)
    /\ \E r \in {ConvertedBlock(conv, pkg.body[conv.k + 1])} :
           conv' = [r.self EXCEPT !.k = @ + 1,
                                  !.html_content = IF r.html # <<>> THEN Append(@, r.html)
                                                   ELSE @]
    /\ UNCHANGED <<doc, toc, std, tex, pkg, math, jobs, head, session, calls>>

\* lines 99-115
FinishConversion ==
    /\ conv.pc = "blocks"
    /\ conv.k = Len(pkg.body)
    /\ conv' = [conv EXCEPT !.pc = "done", !.written = TRUE]
    /\ UNCHANGED <<doc, toc, std, tex, pkg, math, jobs, head, session, calls>>

HtmlNext ==
    \/ StartConversion
    \/ ConvertBlock
    \/ FinishConversion

SpecHtml == HtmlInit /\ [][HtmlNext]_vars

---------------------------------------------------------------------------
(* Properties of convert_docx_to_html, checked under SpecHtml.             *)

ImageIds == {Rid1, Rid2, Rid3, Rid9}

\* the items of the HTML so far
HtmlItems == Flatten(conv.html_content)

\* the <img> tags emitted for image_id
ImgTags(image_id) ==
    {n \in 1..Len(HtmlItems) :
        HtmlItems[n].kind = "img" /\ <<HtmlItems[n].val[2]>> = image_id}

AllImgTags == {n \in 1..Len(HtmlItems) : HtmlItems[n].kind = "img"}

\* the cells of a table
CellsOf(table) == UNION {SeqSet(table.rows[r]) : r \in 1..Len(table.rows)}

\* the paragraphs of a table, the nested tables included
RECURSIVE ParagraphsOfTable(_)
ParagraphsOfTable(table) ==
    UNION {SeqSet(cell.paragraphs) \cup
           UNION {ParagraphsOfTable(cell.tables[n]) : n \in 1..Len(cell.tables)} :
              cell \in CellsOf(table)}

\* the paragraphs a block holds
ParagraphsOfBlock(block) ==
    IF block.kind = "p" THEN {block}
    ELSE IF block.kind = "tbl" THEN ParagraphsOfTable(block)
    ELSE {}

\* the paragraphs of a block the conversion reads: the block, or the
\* paragraphs right below the cells of the table
ParagraphsRead(block) ==
    IF block.kind = "p" THEN {block}
    ELSE IF block.kind = "tbl"
    THEN UNION {SeqSet(cell.paragraphs) : cell \in CellsOf(block)}
    ELSE {}

\* how often paragraph refers to image_id
RefsIn(paragraph, image_id) ==
    Cardinality({n \in 1..Len(Iter(paragraph.element)) :
                    Iter(paragraph.element)[n].tag = "blip"
                        /\ Iter(paragraph.element)[n].embed = image_id})

\* image_id is referenced two or more times in the document
ReferencedTwice(image_id) ==
    \E k1 \in 1..Len(pkg.body), k2 \in 1..Len(pkg.body) :
        \E p1 \in ParagraphsOfBlock(pkg.body[k1]), p2 \in ParagraphsOfBlock(pkg.body[k2]) :
            /\ RefsIn(p1, image_id) >= 1
            /\ RefsIn(p2, image_id) >= 1
            /\ (k1 # k2 \/ p1 # p2 \/ RefsIn(p1, image_id) >= 2)

\* the paragraph is rendered by walking its element, not by the rule for
\* headings that have text
IsWalked(paragraph) ==
    style_mapping(paragraph.style) = "p" \/ Strip(ParagraphText(paragraph)) = <<>>

\* a paragraph the conversion reads and walks refers to image_id
ReachedByWalk(image_id) ==
    \E k \in 1..Len(pkg.body) : \E p \in ParagraphsRead(pkg.body[k]) :
        IsWalked(p) /\ RefsIn(p, image_id) >= 1

\* _save_image returns a file name for image_id
Resolvable(image_id) ==
    /\ image_id \in DOMAIN pkg.rels
    /\ pkg.rels[image_id].blob
    /\ pkg.include_images

Converted == conv.pc = "done"

TextItems == {HtmlItems[n].val : n \in {x \in 1..Len(HtmlItems) : HtmlItems[x].kind = "text"}}

\* C10: an image id that is in no relationship or whose payload cannot be
\* saved gets no <img> tag and no count; the text behind it in the
\* paragraph and the blocks behind the paragraph are converted; the image
\* counter is the number of <img> tags and the size of the processed-id set.
C10_UnresolvedImageSkipped ==
    /\ \A image_id \in ImageIds :
           ~Resolvable(image_id) =>
               (ImgTags(image_id) = {} /\ image_id \notin conv.processed_image_ids)
    /\ conv.pc \in {"blocks", "done"} =>
           /\ conv.stats.images = Cardinality(AllImgTags)
           /\ conv.stats.images = Cardinality(conv.processed_image_ids)
    /\ conv.pc \in {"blocks", "done"} =>
           \A k \in 1..conv.k :
               /\ pkg.body[k] = B_Broken => <<"c">> \in TextItems
               /\ pkg.body[k] = B_Absent => <<"d">> \in TextItems
               /\ pkg.body[k] = B_Unresolved => {<<"c">>, <<"d">>} \subseteq TextItems
               /\ pkg.body[k] = B_RunImage => <<"a">> \in TextItems
    /\ Converted => (conv.k = Len(pkg.body) /\ conv.written)

\* a paragraph with an image that cannot be saved and an image in no
\* relationship, and a paragraph with a good image behind it, were converted
C10_Witness ==
    /\ Converted
    /\ pkg.include_images
    /\ pkg.body = <<B_Unresolved, B_RunImage>>
    /\ conv.stats.images = 1
    /\ Cardinality(AllImgTags) = 1
    /\ {<<"c">>, <<"d">>, <<"a">>} \subseteq TextItems

----------------------------------------------------------------------------
(* The order and the shape of what a paragraph and a table are rendered to. *)

Leaf(kind, id) == [kind |-> kind, id |-> id]

\* the text, formula and image nodes among nodes, in the order of nodes
RECURSIVE SourceLeaves(_)
SourceLeaves(nodes) ==
    IF nodes = <<>> THEN <<>>
    ELSE LET node == Head(nodes)
         IN  (IF node.tag = "t" /\ node.text # <<>> THEN <<Leaf("text", <<>>)>>
              ELSE IF node.tag = "oMath" /\ node.omml # <<>>
                          /\ node.omml # MathFormulaPlaceholder
                   THEN <<Leaf("math", <<>>)>>
              ELSE IF node.tag = "blip" /\ node.embed # <<>> /\ Resolvable(node.embed)
                   THEN <<Leaf("img", node.embed)>>
              ELSE <<>>) \o SourceLeaves(Tail(nodes))

\* leaves without the images that are in seen or earlier in leaves
RECURSIVE FirstReferences(_, _)
FirstReferences(leaves, seen) ==
    IF leaves = <<>> THEN <<>>
    ELSE IF Head(leaves).kind = "img"
         THEN (IF Head(leaves).id \in seen THEN <<>> ELSE <<Head(leaves)>>)
                  \o FirstReferences(Tail(leaves), seen \cup {Head(leaves).id})
         ELSE <<Head(leaves)>> \o FirstReferences(Tail(leaves), seen)

\* a paragraph that is converted: it has text, a formula or a drawing
IsRendered(paragraph) ==
    Strip(ParagraphText(paragraph)) # <<>> \/ has_math_or_images(paragraph)

\* the leaves of the converted paragraphs of blocks in document order
RECURSIVE LeavesOfBlocks(_)
LeavesOfBlocks(blocks) ==
    IF blocks = <<>> THEN <<>>
    ELSE (IF IsRendered(Head(blocks)) THEN SourceLeaves(Iter(Head(blocks).element)) ELSE <<>>)
             \o LeavesOfBlocks(Tail(blocks))

\* the text, formula and image items of html in the order of html
RECURSIVE RenderedLeaves(_)
RenderedLeaves(html) ==
    IF html = <<>> THEN <<>>
    ELSE (IF Head(html).kind = "text" THEN <<Leaf("text", <<>>)>>
          ELSE IF Head(html).kind \in {"inline_math", "display_math"}
               THEN <<Leaf("math", <<>>)>>
          ELSE IF Head(html).kind = "img" THEN <<Leaf("img", <<Head(html).val[2]>>)>>
          ELSE <<>>) \o RenderedLeaves(Tail(html))

\* every block of the body is a paragraph that is no heading
OnlyPlainParagraphs ==
    \A k \in 1..Len(pkg.body) :
        pkg.body[k].kind = "p" /\ style_mapping(pkg.body[k].style) = "p"

\* C12 as stated: a paragraph that is no heading lists its text, images and
\* formulas in the order they are met in the node tree, so an image behind
\* text in its run is rendered behind that text.
C12_AsStated ==
    (Converted /\ OnlyPlainParagraphs) =>
        RenderedLeaves(HtmlItems) = FirstReferences(LeavesOfBlocks(pkg.body), {})

\* the test of the delimiters as the description of the conversion states it
InlineByDescription(latex_formula) ==
    /\ Len(latex_formula) <= DisplayMathLen
    /\ \A cmd \in DisplayCommands : ~Contains(latex_formula, cmd)
    /\ ~Contains(latex_formula, BeginBrace)
    /\ ~Contains(latex_formula, <<"\n">>)

\* C13 as stated: a formula is in inline delimiters exactly when it has at
\* most 50 characters, none of \frac, \sum, \int, \prod, no \begin{ and no
\* line break, below the paragraph as well as in a run.
C13_AsStated ==
    Converted =>
        \A n \in 1..Len(HtmlItems) :
            HtmlItems[n].kind \in {"inline_math", "display_math"} =>
                (HtmlItems[n].kind = "inline_math" <=> InlineByDescription(HtmlItems[n].val))

\* <td><strong>Header</strong></td>
HeaderCellHtml ==
    <<Item("open", <<"td">>),
      Item("text", <<"<strong>", "H", "e", "a", "d", "e", "r", "</strong>">>),
      Item("close", <<"td">>)>>

\* C14 as stated: the table of one row of two cells with the bold text
\* "Header" becomes one row of two cells that hold <strong>Header</strong>
\* and no line break, and no cell ends with a line break.
C14_AsStated ==
    Converted =>
        /\ pkg.body = <<B_HeaderTable>> =>
               HtmlItems = <<Item("open", <<"table">>), Item("open", <<"tr">>)>>
                               \o HeaderCellHtml \o HeaderCellHtml
                               \o <<Item("close", <<"tr">>), Item("close", <<"table">>)>>
        /\ \A n \in 1..(Len(HtmlItems) - 1) :
               ~(HtmlItems[n].kind = "br" /\ HtmlItems[n + 1] = Item("close", <<"td">>))

\* the tables of blocks, the tables nested in their cells included
RECURSIVE TableCount(_)
RECURSIVE TableCountOfCells(_)
RECURSIVE TableCountOfRows(_)
TableCount(blocks) ==
    IF blocks = <<>> THEN 0
    ELSE (IF Head(blocks).kind = "tbl" THEN 1 + TableCountOfRows(Head(blocks).rows) ELSE 0)
             + TableCount(Tail(blocks))

TableCountOfCells(cells) ==
    IF cells = <<>> THEN 0
    ELSE TableCount(Head(cells).tables) + TableCountOfCells(Tail(cells))

TableCountOfRows(rows) ==
    IF rows = <<>> THEN 0 ELSE TableCountOfCells(Head(rows)) + TableCountOfRows(Tail(rows))

\* C15 as stated: every block of a table cell is rendered, a table nested
\* in the cell included, so every table of the body has its <table>.
C15_AsStated ==
    Converted =>
        Cardinality({n \in 1..Len(HtmlItems) : HtmlItems[n] = Item("open", <<"table">>)})
            = TableCount(pkg.body)

---------------------------------------------------------------------------
(* OmmlToLatexConverter, omml_to_latex.py.  A math element is              *)
(* [tag, text, val, sepChr, children]: its local tag name, its text, its   *)
(* val and sepChr attributes (<<>> when absent or empty) and its children. *)
(* A conversion returns [exc, text]: exc when it raised.  THETA is U+03B8, *)
(* SUBSETEQ is U+2286, INFTY is U+221E.                                    *)

MathNode(tag, text, val, children) ==
    [tag |-> tag, text |-> text, val |-> val, sepChr |-> <<>>, children |-> children]

Result(text) == [exc |-> FALSE, text |-> text]

\* RecursionError
Raised == [exc |-> TRUE, text |-> <<>>]

\* a + b of two results
Cat(a, b) == IF a.exc THEN a ELSE IF b.exc THEN b ELSE Result(a.text \o b.text)

\* [a-zA-Z]
AsciiLetters ==
    {"a", "b", "c", "d", "e", "f", "g", "h", "i", "j", "k", "l", "m", "n", "o", "p", "q",
     "r", "s", "t", "u", "v", "w", "x", "y", "z", "A", "B", "C", "D", "E", "F", "G", "H",
     "I", "J", "K", "L", "M", "N", "O", "P", "Q", "R", "S", "T", "U", "V", "W", "X", "Y",
     "Z"}

\* [A-Z]
AsciiCapitals ==
    {"A", "B", "C", "D", "E", "F", "G", "H", "I", "J", "K", "L", "M", "N", "O", "P", "Q",
     "R", "S", "T", "U", "V", "W", "X", "Y", "Z"}

\* [a-zA-Z0-9]
AsciiAlnum == AsciiLetters \cup Digits

\* symbol_map, lines 15-61, for one character: the entries of the
\* characters the math texts are made of
SymbolMap(c) ==
    CASE c = "THETA" -> <<"\\", "t", "h", "e", "t", "a">>
      [] c = "SUBSETEQ" -> <<"\\", "s", "u", "b", "s", "e", "t", "e", "q">>
      [] c = "INFTY" -> <<"\\", "i", "n", "f", "t", "y">>
      [] c = "~" -> <<"\\", "s", "i", "m">>
      [] OTHER -> <<c>>

\* lines 520-521: no value of the map holds a key of the map, so the
\* replacements one after the other replace each character once
RECURSIVE WithSymbols(_)
WithSymbols(text) ==
    IF text = <<>> THEN <<>> ELSE SymbolMap(Head(text)) \o WithSymbols(Tail(text))

\* the first position of c in s from i on, 0 when there is none
RECURSIVE IndexFrom(_, _, _)
IndexFrom(s, c, i) ==
    IF i > Len(s) THEN 0 ELSE IF s[i] = c THEN i ELSE IndexFrom(s, c, i + 1)

\* the end of a match of  #\([^)]+\)  at i, 0 when there is none
NumberRefEnd(s, i) ==
    LET j == IndexFrom(s, ")", i + 2)
    IN  IF OccursAt(s, <<"#", "(">>, i) /\ j > i + 2 THEN j ELSE 0

\* re.sub(r'#\([^)]+\)', '', s), lines 528 and 589, from i on
RECURSIVE WithoutNumberRefs(_, _)
WithoutNumberRefs(s, i) ==
    IF i > Len(s) THEN <<>>
    ELSE IF NumberRefEnd(s, i) > 0 THEN WithoutNumberRefs(s, NumberRefEnd(s, i) + 1)
    ELSE <<s[i]>> \o WithoutNumberRefs(s, i + 1)

\* the end of a match of  #\\left\([^)]+\\right\)  at i, 0 when there is
\* none: [^)]+ ends in front of the \right of the first ) behind it
LeftRefEnd(s, i) ==
    LET open == <<"#">> \o Left \o <<"(">>
        j == IndexFrom(s, ")", i + Len(open))
    IN  IF /\ OccursAt(s, open, i)
           /\ j - Len(Right) > i + Len(open)
           /\ OccursAt(s, Right, j - Len(Right))
        THEN j ELSE 0

\* re.sub(r'#\\left\([^)]+\\right\)', '', s), line 590, from i on
RECURSIVE WithoutLeftRefs(_, _)
WithoutLeftRefs(s, i) ==
    IF i > Len(s) THEN <<>>
    ELSE IF LeftRefEnd(s, i) > 0 THEN WithoutLeftRefs(s, LeftRefEnd(s, i) + 1)
    ELSE <<s[i]>> \o WithoutLeftRefs(s, i + 1)

\* re.sub(r'(?<!\\)#(?![a-zA-Z])', '', s), lines 531 and 593, from i on;
\* the look-behind reads the character of s in front of i
RECURSIVE WithoutHashes(_, _)
WithoutHashes(s, i) ==
    IF i > Len(s) THEN <<>>
    ELSE (IF /\ s[i] = "#"
             /\ ~(i > 1 /\ s[i - 1] = "\\")
             /\ ~(i < Len(s) /\ s[i + 1] \in AsciiLetters)
          THEN <<>> ELSE <<s[i]>>) \o WithoutHashes(s, i + 1)

\* re.sub(r'\\\\(?!\\|$)', r'\\', s), line 596, from i on: two backslashes
\* that neither a backslash nor the end follows become one
RECURSIVE WithSingleBackslashes(_, _)
WithSingleBackslashes(s, i) ==
    IF i > Len(s) THEN <<>>
    ELSE IF OccursAt(s, <<"\\", "\\">>, i) /\ i + 2 <= Len(s) /\ s[i + 2] # "\\"
              /\ ~(i + 2 = Len(s) /\ s[i + 2] = "\n")
         THEN <<"\\">> \o WithSingleBackslashes(s, i + 2)
    ELSE <<s[i]>> \o WithSingleBackslashes(s, i + 1)

\* latex_commands, lines 543-560, in the order of line 563: the longer
\* command first, commands of one length as they are listed
LatexCommands ==
    <<<<"\\", "l", "e", "f", "t", "r", "i", "g", "h", "t", "a", "r", "r", "o", "w">>,
      <<"\\", "L", "e", "f", "t", "r", "i", "g", "h", "t", "a", "r", "r", "o", "w">>,
      <<"\\", "u", "p", "d", "o", "w", "n", "a", "r", "r", "o", "w">>,
      <<"\\", "r", "i", "g", "h", "t", "a", "r", "r", "o", "w">>,
      <<"\\", "R", "i", "g", "h", "t", "a", "r", "r", "o", "w">>,
      <<"\\", "l", "e", "f", "t", "a", "r", "r", "o", "w">>,
      <<"\\", "L", "e", "f", "t", "a", "r", "r", "o", "w">>,
      <<"\\", "d", "o", "w", "n", "a", "r", "r", "o", "w">>,
      <<"\\", "s", "u", "b", "s", "e", "t", "e", "q">>,
      <<"\\", "s", "u", "p", "s", "e", "t", "e", "q">>,
      <<"\\", "p", "a", "r", "a", "l", "l", "e", "l">>,
      <<"\\", "e", "m", "p", "t", "y", "s", "e", "t">>,
      <<"\\", "u", "p", "a", "r", "r", "o", "w">>,
      <<"\\", "p", "a", "r", "t", "i", "a", "l">>,
      <<"\\", "U", "p", "s", "i", "l", "o", "n">>,
      <<"\\", "e", "p", "s", "i", "l", "o", "n">>,
      <<"\\", "u", "p", "s", "i", "l", "o", "n">>,
      <<"\\", "s", "u", "b", "s", "e", "t">>,
      <<"\\", "s", "u", "p", "s", "e", "t">>,
      <<"\\", "a", "p", "p", "r", "o", "x">>,
      <<"\\", "p", "r", "o", "p", "t", "o">>,
      <<"\\", "f", "o", "r", "a", "l", "l">>,
      <<"\\", "e", "x", "i", "s", "t", "s">>,
      <<"\\", "L", "a", "m", "b", "d", "a">>,
      <<"\\", "l", "a", "m", "b", "d", "a">>,
      <<"\\", "n", "o", "t", "i", "n">>,
      <<"\\", "e", "q", "u", "i", "v">>,
      <<"\\", "t", "i", "m", "e", "s">>,
      <<"\\", "a", "n", "g", "l", "e">>,
      <<"\\", "i", "n", "f", "t", "y">>,
      <<"\\", "n", "a", "b", "l", "a">>,
      <<"\\", "G", "a", "m", "m", "a">>,
      <<"\\", "D", "e", "l", "t", "a">>,
      <<"\\", "T", "h", "e", "t", "a">>,
      <<"\\", "S", "i", "g", "m", "a">>,
      <<"\\", "O", "m", "e", "g", "a">>,
      <<"\\", "a", "l", "p", "h", "a">>,
      <<"\\", "g", "a", "m", "m", "a">>,
      <<"\\", "d", "e", "l", "t", "a">>,
      <<"\\", "t", "h", "e", "t", "a">>,
      <<"\\", "k", "a", "p", "p", "a">>,
      <<"\\", "s", "i", "g", "m", "a">>,
      <<"\\", "o", "m", "e", "g", "a">>,
      <<"\\", "c", "d", "o", "t">>,
      <<"\\", "c", "i", "r", "c">>,
      <<"\\", "s", "q", "r", "t">>,
      <<"\\", "p", "e", "r", "p">>,
      <<"\\", "b", "e", "t", "a">>,
      <<"\\", "z", "e", "t", "a">>,
      <<"\\", "i", "o", "t", "a">>,
      <<"\\", "n", "e", "q">>,
      <<"\\", "g", "e", "q">>,
      <<"\\", "l", "e", "q">>,
      <<"\\", "d", "i", "v">>,
      <<"\\", "P", "h", "i">>,
      <<"\\", "P", "s", "i">>,
      <<"\\", "e", "t", "a">>,
      <<"\\", "r", "h", "o">>,
      <<"\\", "t", "a", "u">>,
      <<"\\", "p", "h", "i">>,
      <<"\\", "c", "h", "i">>,
      <<"\\", "p", "s", "i">>,
      <<"\\", "c", "u", "p">>,
      <<"\\", "c", "a", "p">>,
      <<"\\", "s", "i", "m">>,
      <<"\\", "p", "m">>,
      <<"\\", "m", "p">>,
      <<"\\", "X", "i">>,
      <<"\\", "P", "i">>,
      <<"\\", "m", "u">>,
      <<"\\", "n", "u">>,
      <<"\\", "x", "i">>,
      <<"\\", "p", "i">>>>

\* re.sub(f'({cmd})(?=[a-zA-Z0-9])', r'\1 ', text), lines 569-570, from i on
RECURSIVE SpaceAfter(_, _, _)
SpaceAfter(text, cmd, i) ==
    IF i > Len(text) THEN <<>>
    ELSE IF /\ OccursAt(text, cmd, i)
            /\ i + Len(cmd) <= Len(text)
            /\ text[i + Len(cmd)] \in AsciiAlnum
         THEN cmd \o <<" ">> \o SpaceAfter(text, cmd, i + Len(cmd))
    ELSE <<text[i]>> \o SpaceAfter(text, cmd, i + 1)

\* lines 568-570 for the commands from the lo-th to the hi-th, one after
\* the other: the first half of them, then the second half on its result
RECURSIVE SpaceAfterCommands(_, _, _)
SpaceAfterCommands(text, lo, hi) ==
    IF lo = hi THEN SpaceAfter(text, LatexCommands[lo], 1)
    ELSE CHOOSE r \in {SpaceAfterCommands(t, (lo + hi) \div 2 + 1, hi) :
                          t \in {SpaceAfterCommands(text, lo, (lo + hi) \div 2)}} : TRUE

\* re.sub(r'\\in([A-Z])', r'\\in \1', text), line 576, from i on
RECURSIVE SpaceAfterIn(_, _)
SpaceAfterIn(text, i) ==
    IF i > Len(text) THEN <<>>
    ELSE IF OccursAt(text, <<"\\", "i", "n">>, i) /\ i + 3 <= Len(text)
              /\ text[i + 3] \in AsciiCapitals
         THEN <<"\\", "i", "n", " ", text[i + 3]>> \o SpaceAfterIn(text, i + 4)
    ELSE <<text[i]>> \o SpaceAfterIn(text, i + 1)

\* add_spaces_after_latex_commands, lines 535-578
add_spaces_after_latex_commands(text) ==
    CHOOSE r \in {SpaceAfterIn(t, 1) : t \in {SpaceAfterCommands(text, 1, Len(LatexCommands))}} :
        TRUE

\* re.sub(r'\s*,\s*$', '', s), line 602: the comma that only white space
\* follows goes, with the white space around it
WithoutTrailingComma(s) ==
    LET r == BackRun(s, Len(s), Whitespace)
    IN  IF r >= 1 /\ s[r] = "," THEN SubSeq(s, 1, BackRun(s, r - 1, Whitespace)) ELSE s

\* re.sub(r'\s+', ' ', s), line 603, from i on
RECURSIVE WithSingleSpaces(_, _)
WithSingleSpaces(s, i) ==
    IF i > Len(s) THEN <<>>
    ELSE IF s[i] \in Whitespace
         THEN <<" ">> \o WithSingleSpaces(s, RunEnd(s, i, Whitespace) + 1)
    ELSE <<s[i]>> \o WithSingleSpaces(s, i + 1)

\* lines 589-603, each substitution on the result of the one before
CleanedUp(latex_text) ==
    LET t1 == {WithoutNumberRefs(latex_text, 1)}
        t2 == {WithoutLeftRefs(t, 1) : t \in t1}
        t3 == {WithoutHashes(t, 1) : t \in t2}
        t4 == {WithSingleBackslashes(t, 1) : t \in t3}
        t5 == {add_spaces_after_latex_commands(t) : t \in t4}
        t6 == {WithoutTrailingComma(t) : t \in t5}
    IN  CHOOSE r \in {Strip(WithSingleSpaces(t, 1)) : t \in t6} : TRUE

\* clean_latex_output, lines 580-605
clean_latex_output(latex_text) ==
    IF latex_text = <<>> THEN latex_text ELSE CleanedUp(latex_text)

\* convert_text, lines 511-533
convert_text(element) ==
    IF element.text = <<"|">> THEN <<"\\", "m", "i", "d">>
    ELSE CHOOSE r \in {WithoutHashes(t, 1) :
                          t \in {WithoutNumberRefs(WithSymbols(element.text), 1)}} : TRUE

\* str.split('|') when the text has one '|': what is in front of it and
\* what is behind it
SplitAtBar(expr) ==
    LET i == IndexFrom(expr, "|", 1)
    IN  <<SubSeq(expr, 1, i - 1), SubSeq(expr, i + 1, Len(expr))>>

\* lines 304-312, left_delim (begChr) or right_delim (endChr): the val of
\* the last such child of the dPr children that has one, else the default
RECURSIVE DelimiterOfProps(_, _, _)
DelimiterOfProps(props, name, delim) ==
    IF props = <<>> THEN delim
    ELSE DelimiterOfProps(Tail(props), name,
             IF Head(props).tag = name /\ Head(props).val # <<>> THEN Head(props).val
             ELSE delim)

RECURSIVE DelimiterOf(_, _, _)
DelimiterOf(children, name, delim) ==
    IF children = <<>> THEN delim
    ELSE DelimiterOf(Tail(children), name,
             IF Head(children).tag = "dPr"
             THEN DelimiterOfProps(Head(children).children, name, delim)
             ELSE delim)

\* lines 321-326, sep_char over the children of one dPr
RECURSIVE SeparatorOfProps(_, _)
SeparatorOfProps(props, sep_char) ==
    IF props = <<>> THEN sep_char
    ELSE SeparatorOfProps(Tail(props),
             IF Head(props).tag = "sepChr"
             THEN (IF Head(props).val # <<>> THEN Head(props).val ELSE sep_char)
             ELSE IF Head(props).tag = "val" /\ Contains(Head(props).val, <<"|">>)
                  THEN <<"|">>
             ELSE sep_char)

\* lines 315-326, sep_char: <<>> stands for None and for ''
RECURSIVE SeparatorOf(_, _)
SeparatorOf(children, sep_char) ==
    IF children = <<>> THEN sep_char
    ELSE SeparatorOf(Tail(children),
             IF Head(children).tag = "dPr"
             THEN SeparatorOfProps(Head(children).children,
                      IF Head(children).sepChr # <<>> THEN Head(children).sepChr
                      ELSE sep_char)
             ELSE sep_char)

\* lines 348-352: the text of the nodes below element in document order
RECURSIVE TextBelow(_)
TextBelow(nodes) ==
    IF nodes = <<>> THEN <<>> ELSE Head(nodes).text \o TextBelow(Tail(nodes))

\* line 355; THETA is one character
ProbIndicators == {<<"p">>, <<"P">>, <<"P", "r">>, <<"THETA">>, <<"l", "o", "g">>}

\* line 363, the characters looked for in the second part
ConditionVariables == {<<"x">>, <<"X">>, <<"I">>, <<"c">>}

FirstPartLen == 2

\* LooksConditional without the test of the text below the node
LooksConditional_VariablesOnly(expr_parts, parent_context) ==
    /\ Len(Strip(expr_parts[1])) <= FirstPartLen
    /\ \E v \in ConditionVariables : Contains(Strip(expr_parts[2]), v)

\* lines 363-364
LooksConditional(expr_parts, parent_context) ==
    \/ /\ Len(Strip(expr_parts[1])) <= FirstPartLen
       /\ \E v \in ConditionVariables : Contains(Strip(expr_parts[2]), v)
    \/ \E indicator \in ProbIndicators : Contains(parent_context, indicator)

\* lines 345-366: sep_char after the look at two expressions in parentheses
ForcedSeparator(element, d) ==
    IF /\ Len(d.expr_parts) = 2
       /\ d.sep_char = <<>>
       /\ d.left_delim = <<"(">>
       /\ d.right_delim = <<")">>
       /\ LooksConditional(d.expr_parts, TextBelow(IterAll(element.children)))
    THEN <<"|">> ELSE d.sep_char

\* sep.join(parts)
RECURSIVE Join(_, _)
Join(parts, sep) ==
    IF parts = <<>> THEN <<>>
    ELSE IF Len(parts) = 1 THEN parts[1]
    ELSE parts[1] \o sep \o Join(Tail(parts), sep)

\* lines 369-374
InnerExpr(expr_parts, sep_char) ==
    IF sep_char # <<>>
    THEN Join(expr_parts, IF sep_char = <<"|">> THEN <<" ", "\\", "m", "i", "d", " ">>
                          ELSE <<" ">> \o sep_char \o <<" ">>)
    ELSE Join(expr_parts, <<>>)

\* _escape_delim, lines 378-384
escape_delim(ch) ==
    IF ch = <<>> THEN <<>>
    ELSE IF ch \in {<<"{">>, <<"}">>} THEN <<"\\">> \o ch
    ELSE ch

\* lines 386-396
Delimited(left_delim, inner_expr, right_delim) ==
    Left \o escape_delim(left_delim) \o <<" ">> \o inner_expr \o <<" ">> \o Right
        \o (IF escape_delim(right_delim) = <<>> THEN <<".">> ELSE escape_delim(right_delim))

\* lines 333-341: d with the converted expression expr of one e child
WithExpression(d, expr) ==
    IF d.exc \/ expr.exc THEN [d EXCEPT !.exc = TRUE]
    ELSE IF Contains(expr.text, <<"|">>) /\ d.sep_char = <<>>
              /\ Count(expr.text, <<"|">>) = 1
         THEN [d EXCEPT !.expr_parts = @ \o SplitAtBar(expr.text), !.sep_char = <<"|">>]
    ELSE [d EXCEPT !.expr_parts = Append(@, expr.text)]

\* the result of convert_delimiter for its locals d
DelimiterResult(element, d) ==
    IF d.exc THEN Raised
    ELSE Result(Delimited(d.left_delim, InnerExpr(d.expr_parts, ForcedSeparator(element, d)),
                            d.right_delim))

RECURSIVE convert_element(_)
RECURSIVE ConvertAll(_)
RECURSIVE ConvertTagged(_, _, _)
RECURSIVE CollectExpressions(_, _)

\* "for child in element: result += self.convert_element(child)", lines
\* 121-124, 128-131 and 506-509
ConvertAll(children) ==
    IF children = <<>> THEN Result(<<>>)
    ELSE Cat(convert_element(Head(children)), ConvertAll(Tail(children)))

\* the conversion of the last child with this tag, found behind the
\* conversions of the ones before it
ConvertTagged(children, tag, found) ==
    IF children = <<>> \/ found.exc THEN found
    ELSE IF Head(children).tag = tag
         THEN ConvertTagged(Tail(children), tag, convert_element(Head(children)))
    ELSE ConvertTagged(Tail(children), tag, found)

\* convert_fraction, lines 133-145
convert_fraction(element) ==
    Cat(Cat(Result(<<"\\", "f", "r", "a", "c", "{">>),
            ConvertTagged(element.children, "num", Result(<<>>))),
        Cat(Result(<<"}", "{">>),
            Cat(ConvertTagged(element.children, "den", Result(<<>>)), Result(<<"}">>))))

\* lines 329-341, from the children on
CollectExpressions(children, d) ==
    IF children = <<>> THEN d
    ELSE IF Head(children).tag = "e"
         THEN CHOOSE r \in {CollectExpressions(Tail(children), d1) :
                               d1 \in {WithExpression(d, convert_element(Head(children)))}} : TRUE
    ELSE CollectExpressions(Tail(children), d)

\* convert_delimiter, lines 297-396
convert_delimiter(element) ==
    DelimiterResult(element,
        CollectExpressions(element.children,
            [exc |-> FALSE,
             left_delim |-> DelimiterOf(element.children, "begChr", <<"(">>),
             right_delim |-> DelimiterOf(element.children, "endChr", <<")">>),
             sep_char |-> SeparatorOf(element.children, <<>>),
             expr_parts |-> <<>>]))

\* str.strip('{}')
RECURSIVE StripBraces(_)
StripBraces(s) ==
    IF s # <<>> /\ s[1] \in {"{", "}"} THEN StripBraces(Tail(s))
    ELSE IF s # <<>> /\ s[Len(s)] \in {"{", "}"} THEN StripBraces(SubSeq(s, 1, Len(s) - 1))
    ELSE s

\* 'max' and 'min', line 483
LimitOperators == {<<"m", "a", "x">>, <<"m", "i", "n">>}

\* f"\\operatorname*{{{base_stripped}}}_{{{lim}}}", line 486; the re.sub of
\* line 485 finds no backslash in max and min
OperatorWithLimit(base_stripped, lim) ==
    <<"\\", "o", "p", "e", "r", "a", "t", "o", "r", "n", "a", "m", "e", "*", "{">>
        \o base_stripped \o <<"}", "_", "{">> \o lim \o <<"}">>

\* f"\\underset{{{lim}}}{{{base}}}", line 488
Underset(lim, base) ==
    <<"\\", "u", "n", "d", "e", "r", "s", "e", "t", "{">> \o lim \o <<"}", "{">> \o base \o <<"}">>

\* f"\\overset{{{lim}}}{{{base}}}", line 502
Overset(lim, base) ==
    <<"\\", "o", "v", "e", "r", "s", "e", "t", "{">> \o lim \o <<"}", "{">> \o base \o <<"}">>

\* lines 481-488 for the converted base and lim
LowerLimitOf(base, lim) ==
    IF base.exc \/ lim.exc THEN Raised
    ELSE IF StripBraces(base.text) \in LimitOperators /\ lim.text # <<>>
    THEN Result(OperatorWithLimit(StripBraces(base.text), lim.text))
    ELSE Result(Underset(lim.text, base.text))

\* convert_limit_lower, lines 469-488
convert_limit_lower(element) ==
    LowerLimitOf(ConvertTagged(element.children, "e", Result(<<>>)),
                 ConvertTagged(element.children, "lim", Result(<<>>)))

\* UpperLimitOf with the operators of the lower limit (C26 depends on the
\* upper limit having none)
UpperLimitOf_WithOperators(base, lim) == LowerLimitOf(base, lim)

\* line 502 for the converted base and lim
UpperLimitOf(base, lim) ==
    IF base.exc \/ lim.exc THEN Raised ELSE Result(Overset(lim.text, base.text))

\* convert_limit_upper, lines 490-502
convert_limit_upper(element) ==
    UpperLimitOf(ConvertTagged(element.children, "e", Result(<<>>)),
                 ConvertTagged(element.children, "lim", Result(<<>>)))

\* convert_box, lines 446-448: the call is made on the box itself, which
\* is converted by convert_box again, until RecursionError is raised
convert_box(element) == Raised

\* convert_element, lines 72-124, for the tags of the math elements; every
\* other tag of the model is converted as an unknown element
convert_element(element) ==
    CASE element.tag = "oMath" -> ConvertAll(element.children)
      [] element.tag = "f" -> convert_fraction(element)
      [] element.tag = "d" -> convert_delimiter(element)
      [] element.tag = "box" -> convert_box(element)
      [] element.tag = "limLow" -> convert_limit_lower(element)
      [] element.tag = "limUpp" -> convert_limit_upper(element)
      [] element.tag = "r" -> ConvertAll(element.children)
      [] element.tag = "t" -> Result(convert_text(element))
      [] OTHER -> ConvertAll(element.children)

\* <m:r><m:t>text</m:t></m:r>
MathRun(text) == MathNode("r", <<>>, <<>>, <<MathNode("t", text, <<>>, <<>>)>>)

\* <m:e> with one run
Expr(text) == MathNode("e", <<>>, <<>>, <<MathRun(text)>>)

\* <m:d> with the children of its dPr and its other children
Delimiter(props, children) ==
    MathNode("d", <<>>, <<>>,
             (IF props = <<>> THEN <<>> ELSE <<MathNode("dPr", <<>>, <<>>, props)>>)
                 \o children)

OMathOf(children) == MathNode("oMath", <<>>, <<>>, children)

\* the runs of a sequence of texts
MathRuns(texts) == [k \in 1..Len(texts) |-> MathRun(texts[k])]

\* what the text of a run is
MathTexts ==
    {<<"y">>, <<"x">>, <<"a">>, <<"p">>, <<"|">>, <<",">>, <<" ">>, <<"#">>,
     <<"#", "(", "1", ")">>, <<"#", "a">>, <<"THETA">>, <<"SUBSETEQ">>, <<"INFTY", "x">>,
     <<"\\", "\\", "a">>}

\* how many runs a formula of runs has
MaxMathRuns == 2

\* what stands in front of a delimiter: nothing, or one run
ContextTexts == {<<>>, <<"p">>, <<"a">>}

\* what an expression in a delimiter is
ExprTexts == {<<"y">>, <<"x">>, <<"a">>, <<"b">>, <<"p">>, <<"THETA">>, <<"y", "|", "x">>}

\* context, then (first)(second) in one delimiter without properties
Probability(context, first, second) ==
    OMathOf((IF context = <<>> THEN <<>> ELSE <<MathRun(context)>>)
                \o <<Delimiter(<<>>, <<Expr(first), Expr(second)>>)>>)

\* formulas with other delimiters, separators, fractions and boxes
OtherFormulas ==
    {OMathOf(<<Delimiter(<<>>, <<Expr(<<"a">>)>>)>>),
     OMathOf(<<Delimiter(<<>>, <<Expr(<<"a">>), Expr(<<"p">>), Expr(<<"x">>)>>)>>),
     OMathOf(<<Delimiter(<<MathNode("begChr", <<>>, <<"[">>, <<>>),
                           MathNode("endChr", <<>>, <<"]">>, <<>>)>>,
                         <<Expr(<<"y">>), Expr(<<"x">>)>>)>>),
     OMathOf(<<Delimiter(<<MathNode("begChr", <<>>, <<"{">>, <<>>),
                           MathNode("endChr", <<>>, <<>>, <<>>)>>,
                         <<Expr(<<"a">>)>>)>>),
     OMathOf(<<Delimiter(<<MathNode("sepChr", <<>>, <<",">>, <<>>)>>,
                         <<Expr(<<"y">>), Expr(<<"x">>)>>)>>),
     OMathOf(<<MathNode("f", <<>>, <<>>,
                        <<MathNode("num", <<>>, <<>>, <<MathRun(<<"1">>)>>),
                          MathNode("den", <<>>, <<>>, <<MathRun(<<"2">>)>>)>>)>>),
     OMathOf(<<MathNode("box", <<>>, <<>>, <<Expr(<<"x">>)>>)>>),
     OMathOf(<<MathRun(<<"a">>),
               MathNode("f", <<>>, <<>>,
                        <<MathNode("num", <<>>, <<>>,
                                   <<MathNode("box", <<>>, <<>>, <<Expr(<<"x">>)>>)>>),
                          MathNode("den", <<>>, <<>>, <<MathRun(<<"2">>)>>)>>)>>),
     OMathOf(<<Delimiter(<<>>, <<Expr(<<"y">>),
                                 MathNode("e", <<>>, <<>>,
                                          <<MathNode("box", <<>>, <<>>, <<Expr(<<"x">>)>>)>>)>>)>>),
     OMathOf(<<MathNode("sPre", <<>>, <<>>, <<>>)>>)}

\* what the base of a limit is
LimitBases ==
    {<<"m", "a", "x">>, <<"m", "i", "n">>, <<"l", "i", "m">>, <<"{", "m", "a", "x", "}">>,
     <<"m", "a", "x", "x">>}

\* what the bound of a limit is
LimitBounds == {<<>>, <<"x">>, <<"a">>}

\* the two tags of a limit
LimitTags == {"limLow", "limUpp"}

\* a limit node: its base in e, its bound in lim
Limit(tag, base, bound) ==
    MathNode(tag, <<>>, <<>>,
             <<MathNode("e", <<>>, <<>>, <<MathRun(base)>>),
               MathNode("lim", <<>>, <<>>, IF bound = <<>> THEN <<>> ELSE <<MathRun(bound)>>)>>)

LimitFormulas ==
    {OMathOf(<<Limit(tag, base, bound)>>) :
        tag \in LimitTags, base \in LimitBases, bound \in LimitBounds}

MathPool ==
    {OMathOf(MathRuns(q)) : q \in SeqsUpTo(MathTexts, MaxMathRuns)}
        \cup {Probability(c, f, s) : c \in ContextTexts, f \in ExprTexts, s \in ExprTexts}
        \cup OtherFormulas
        \cup LimitFormulas

---------------------------------------------------------------------------
(* omml_to_latex as a state machine: the conversion in the try block, the  *)
(* clean-up in the try block, and the except block.                        *)

OmmlInit ==
    /\ math \in {[pc |-> "try", omml_element |-> e, result |-> <<>>, latex |-> <<>>] :
                    e \in MathPool}
    /\ doc = Idle
    /\ toc = Idle
    /\ std = Idle
    /\ tex = Idle
    /\ pkg = Idle
    /\ conv = Idle
    /\ jobs = Idle
    /\ head = Idle
    /\ session = Idle
    /\ calls = Idle

\* line 610, convert_element returns
ConvertMath ==
    /\ math.pc = "try"
    /\ \E r \in {convert_element(math.omml_element)} :
           /\ ~r.exc
           /\ math' = [math EXCEPT !.pc = "converted", !.result = r.text]
    /\ UNCHANGED <<doc, toc, std, tex, pkg, conv, jobs, head, session, calls>>

\* line 610, convert_element raises
RaiseInConversion ==
    /\ math.pc = "try"
    /\ convert_element(math.omml_element).exc
    /\ math' = [math EXCEPT !.pc = "except"]
    /\ UNCHANGED <<doc, toc, std, tex, pkg, conv, jobs, head, session, calls>>

\* line 611
CleanMath ==
    /\ math.pc = "converted"
    /\ math' = [math EXCEPT !.pc = "returned", !.latex = clean_latex_output(math.result)]
    /\ UNCHANGED <<doc, toc, std, tex, pkg, conv, jobs, head, session, calls>>

\* lines 612-614
RecoverMath ==
    /\ math.pc = "except"
    /\ math' = [math EXCEPT !.pc = "returned", !.latex = MathFormulaPlaceholder]
    /\ UNCHANGED <<doc, toc, std, tex, pkg, conv, jobs, head, session, calls>>

OmmlNext ==
    \/ ConvertMath
    \/ RaiseInConversion
    \/ CleanMath
    \/ RecoverMath

SpecOmml == OmmlInit /\ [][OmmlNext]_vars

---------------------------------------------------------------------------
(* Properties of omml_to_latex, checked under SpecOmml.                    *)

\* omml_to_latex has returned
MathReturned == math.pc = "returned"

\* the conversion of the element raised
ConversionRaised == convert_element(math.omml_element).exc

\* C11 as stated: omml_to_latex returns the placeholder "[Math Formula]"
\* for every math element whose conversion raises and for every math
\* element whose conversion is empty.
C11_AsStated ==
    MathReturned =>
        ((ConversionRaised \/ convert_element(math.omml_element).text = <<>>)
            => math.latex = MathFormulaPlaceholder)

\* \left( first \mid second \right)
JoinedWithMid(first, second) ==
    <<"\\", "l", "e", "f", "t", "(", " ">> \o first \o <<" ", "\\", "m", "i", "d", " ">>
        \o second \o <<" ", "\\", "r", "i", "g", "h", "t", ")">>

\* texts that are converted to themselves
PlainTexts == {<<"y">>, <<"x">>, <<"a">>, <<"b">>, <<"p">>}

---------------------------------------------------------------------------
(* Two calls that run at the same time.  jobs.kind says which function is  *)
(* called twice: convert_word_to_html_with_math or the module-level        *)
(* convert_docx_to_html ("convert"), or extract_toc_from_docx ("extract"). *)
(* jobs.converters are the Docx2HtmlConverter instances, jobs.calls the    *)
(* local variables of the two calls.  A step is one block of a conversion  *)
(* or one step of the extraction, and the steps of the two calls are       *)
(* interleaved in every order.                                             *)

Calls == {1, 2}

\* extract_toc_from_docx, lines 120-399: the locals after the step the
\* function takes from locals on package, the steps of OpenDocument to
\* ReturnToc
ExtractionStep(locals, package) ==
    CASE locals.pc = "open" -> Opened(locals, package)
      [] locals.pc = "scan1" /\ locals.i < Len(package.paragraphs) ->
           LET text == StrippedText(package.paragraphs[locals.i + 1])
               counted == CountChapter(locals.chapter_count, ChapterName(text))
           IN  IF text = <<>> THEN [locals EXCEPT !.i = @ + 1]
               ELSE IF ~locals.found_toc /\ IsContentsMarker(text)
               THEN [locals EXCEPT !.found_toc = TRUE,
                                   !.in_toc_section = TRUE,
                                   !.toc_start_index = locals.i,
                                   !.i = @ + 1]
               ELSE IF locals.found_toc /\ locals.in_toc_section /\ ChapterMatchEnd(text) > 0
               THEN IF IsBodyStart(ChapterName(text), counted)
                    THEN [locals EXCEPT !.chapter_count = counted,
                                        !.in_toc_section = FALSE,
                                        !.found_content_start = TRUE,
                                        !.content_start_index = locals.i,
                                        !.toc_end_index = locals.i - 1,
                                        !.pc = "located"]
                    ELSE [locals EXCEPT !.chapter_count = counted, !.i = @ + 1]
               ELSE [locals EXCEPT !.i = @ + 1]
      [] locals.pc = "scan1" /\ locals.i = Len(package.paragraphs) ->
           [locals EXCEPT !.pc = "located"]
      [] locals.pc = "located" ->
           LET toc_end == IF locals.toc_end_index = -1 /\ locals.content_start_index # -1
                          THEN locals.content_start_index - 1
                          ELSE locals.toc_end_index
           IN  IF /\ locals.found_toc
                  /\ locals.toc_start_index # -1
                  /\ locals.content_start_index # -1
               THEN [locals EXCEPT !.toc_end_index = toc_end,
                                   !.start_index = locals.content_start_index,
                                   !.i = locals.content_start_index,
                                   !.pc = "scan2"]
               ELSE [locals EXCEPT !.toc_end_index = toc_end, !.pc = "check"]
      [] locals.pc = "scan2" /\ locals.i < Len(package.paragraphs) ->
           LET para == package.paragraphs[locals.i + 1]
               text == StrippedText(para)
               level == HeadingLevel(para).level
               item == TocNode(locals.i, level, text)
           IN  IF text = <<>> THEN [locals EXCEPT !.i = @ + 1]
               ELSE IF MainPassAccepts(para, locals.chapter_texts)
               THEN IF level = 1
                    THEN [locals EXCEPT !.chapter_texts = @ \cup {item.text},
                                        !.main_chapters = Append(@, item),
                                        !.i = @ + 1]
                    ELSE [locals EXCEPT !.chapter_texts = @ \cup {item.text},
                                        !.sub_chapters = Append(@, item),
                                        !.i = @ + 1]
               ELSE [locals EXCEPT !.i = @ + 1]
      [] locals.pc = "scan2" /\ locals.i = Len(package.paragraphs) ->
           [locals EXCEPT !.pc = "check"]
      [] locals.pc = "check" ->
           LET start == IF locals.content_start_index # -1 THEN locals.content_start_index
                        ELSE 0
           IN  IF Len(locals.main_chapters) < 1
               THEN [locals EXCEPT !.start_index = start, !.i = start, !.pc = "fallback"]
               ELSE [locals EXCEPT !.j = 0, !.pc = "build"]
      [] /\ locals.pc = "fallback"
         /\ locals.i < Len(package.paragraphs)
         /\ locals.i < locals.start_index + FallbackWindow ->
           LET para == package.paragraphs[locals.i + 1]
               item == TocNode(locals.i, 1, StrippedText(para))
           IN  IF FallbackAccepts(para, locals.chapter_texts)
               THEN [locals EXCEPT !.chapter_texts = @ \cup {item.text},
                                   !.main_chapters = Append(@, item),
                                   !.i = @ + 1]
               ELSE [locals EXCEPT !.i = @ + 1]
      [] /\ locals.pc = "fallback"
         /\ ~(/\ locals.i < Len(package.paragraphs)
              /\ locals.i < locals.start_index + FallbackWindow) ->
           [locals EXCEPT !.j = 0, !.pc = "build"]
      [] locals.pc = "build" /\ locals.j < Len(locals.sub_chapters) ->
           LET sub_item == locals.sub_chapters[locals.j + 1]
               k == ParentOf(locals.main_chapters, sub_item)
           IN  IF k = 0 THEN [locals EXCEPT !.j = @ + 1]
               ELSE [locals EXCEPT !.main_chapters[k].children = Append(@, sub_item),
                                   !.j = @ + 1]
      [] locals.pc = "build" /\ locals.j = Len(locals.sub_chapters) ->
           [locals EXCEPT !.toc_items = locals.main_chapters, !.pc = "done"]
      [] OTHER -> locals

\* __init__, lines 36-42: what an instance keeps from one method call to
\* the next
NewInstance ==
    [stats |-> [images |-> 0, inline_math |-> 0, display_math |-> 0],
     processed_image_ids |-> {}]

\* the local variables of a call of convert_docx_to_html that has not begun
NewCall(package) ==
    [pc |-> "new", k |-> 0, html_content |-> <<>>, relationship_map |-> <<>>,
     image_dir |-> None, written |-> FALSE, package |-> package]

\* the one instance every call works on
ConverterOf_OneInstance(call) == 1

\* document_processor.py line 70 and docx2html.py line 627: the call
\* constructs the instance it works on
ConverterOf(call) == call

\* self as the methods of the call see it: the instance and the locals
SelfOf(js, call) ==
    [pc |-> js.calls[call].pc,
     runs |-> 0,
     k |-> js.calls[call].k,
     stats |-> js.converters[ConverterOf(call)].stats,
     processed_image_ids |-> js.converters[ConverterOf(call)].processed_image_ids,
     html_content |-> js.calls[call].html_content,
     relationship_map |-> js.calls[call].relationship_map,
     image_dir |-> js.calls[call].image_dir,
     written |-> js.calls[call].written]

\* js after a step of call that left self as r
WithSelf(js, call, r) ==
    [js EXCEPT !.converters[ConverterOf(call)] =
                   [stats |-> r.stats, processed_image_ids |-> r.processed_image_ids],
               !.calls[call] =
                   [pc |-> r.pc, k |-> r.k, html_content |-> r.html_content,
                    relationship_map |-> r.relationship_map, image_dir |-> r.image_dir,
                    written |-> r.written, package |-> js.calls[call].package]]

\* lines 89-97 of a call: self after the block, its HTML in html_content
AfterBlock(r) ==
    [r.self EXCEPT !.k = @ + 1,
                   !.html_content = IF r.html # <<>> THEN Append(@, r.html) ELSE @]

\* the blocks of the documents that are converted at the same time
JobBlocks == {B_RunImage, B_LinkImage, B_TextImage}

MaxJobBlocks == 2

\* convert_word_to_html_with_math passes include_images=True (line 75)
JobPackages ==
    {[body |-> b, rels |-> PackageRels, include_images |-> TRUE] :
        b \in SeqsUpTo(JobBlocks, MaxJobBlocks)}

\* the documents whose contents are extracted at the same time: a heading
\* twice behind the contents listing, two chapters behind it, no contents
\* listing, and a package that cannot be read
JobDocuments ==
    {[readable |-> TRUE, paragraphs |-> <<P_Mark, P_Toc1, P_Ch1Bold, P_Ch1Bold>>],
     [readable |-> TRUE, paragraphs |-> <<P_Mark, P_Toc1, P_Ch1Bold, P_Ch2Large, P_SubH2>>],
     [readable |-> TRUE, paragraphs |-> <<P_Exp, P_Exp>>],
     Unreadable}

JobsInit ==
    /\ jobs \in
         {[kind |-> "convert",
           converters |-> <<NewInstance, NewInstance>>,
           calls |-> <<NewCall(p1), NewCall(p2)>>] : p1 \in JobPackages, p2 \in JobPackages}
         \cup
         {[kind |-> "extract",
           converters |-> <<>>,
           calls |-> <<[locals |-> TocLocals, package |-> d1],
                       [locals |-> TocLocals, package |-> d2]>>] :
              d1 \in JobDocuments, d2 \in JobDocuments}
    /\ doc = Idle
    /\ toc = Idle
    /\ std = Idle
    /\ tex = Idle
    /\ pkg = Idle
    /\ conv = Idle
    /\ math = Idle
    /\ head = Idle
    /\ session = Idle
    /\ calls = Idle

\* docx2html.py lines 57-86 in one of the calls
StartCall(call) ==
    /\ jobs.kind = "convert"
    /\ jobs.calls[call].pc = "new"
    /\ jobs' = WithSelf(jobs, call, Started(SelfOf(jobs, call), jobs.calls[call].package))
    /\ UNCHANGED <<doc, toc, std, tex, pkg, conv, math, head, session, calls>>

\* docx2html.py lines 89-97 in one of the calls, one block
ConvertCallBlock(call) ==
    /\ jobs.kind = "convert"
    /\ jobs.calls[call].pc = "blocks"
    /\ jobs.calls[call].k < Len(jobs.calls[call].package.body)
    /\ \E r \in {ConvertedBlock(SelfOf(jobs, call),
                                jobs.calls[call].package.body[jobs.calls[call].k + 1])} :
           jobs' = WithSelf(jobs, call, AfterBlock(r))
    /\ UNCHANGED <<doc, toc, std, tex, pkg, conv, math, head, session, calls>>

\* docx2html.py lines 99-115 in one of the calls
FinishCall(call) ==
    /\ jobs.kind = "convert"
    /\ jobs.calls[call].pc = "blocks"
    /\ jobs.calls[call].k = Len(jobs.calls[call].package.body)
    /\ jobs' = WithSelf(jobs, call,
                        [SelfOf(jobs, call) EXCEPT !.pc = "done", !.written = TRUE])
    /\ UNCHANGED <<doc, toc, std, tex, pkg, conv, math, head, session, calls>>

\* one step of one of the calls of extract_toc_from_docx
ExtractCallStep(call) ==
    /\ jobs.kind = "extract"
    /\ jobs.calls[call].locals.pc # "done"
    /\ jobs' = [jobs EXCEPT !.calls[call].locals =
                                ExtractionStep(@, jobs.calls[call].package)]
    /\ UNCHANGED <<doc, toc, std, tex, pkg, conv, math, head, session, calls>>

JobsNext ==
    \/ \E call \in Calls : StartCall(call)
    \/ \E call \in Calls : ConvertCallBlock(call)
    \/ \E call \in Calls : FinishCall(call)
    \/ \E call \in Calls : ExtractCallStep(call)

SpecJobs == JobsInit /\ [][JobsNext]_vars

---------------------------------------------------------------------------
(* Properties of two calls at the same time, checked under SpecJobs.       *)

\* convert_docx_to_html on package with nothing else running: self after
\* the blocks from the k-th on
RECURSIVE ConvertedAlone(_, _, _)
ConvertedAlone(self, package, k) ==
    IF k > Len(package.body) THEN self
    ELSE CHOOSE s \in {ConvertedAlone(s1, package, k + 1) :
                          s1 \in {AfterBlock(r) : r \in {ConvertedBlock(self, package.body[k])}}} :
             TRUE

\* extract_toc_from_docx on package with nothing else running
RECURSIVE ExtractedAlone(_, _)
ExtractedAlone(locals, package) ==
    IF locals.pc = "done" THEN locals
    ELSE CHOOSE s \in {ExtractedAlone(l, package) : l \in {ExtractionStep(locals, package)}} :
             TRUE

\* the image ids with an <img> tag in the HTML of a call
EmittedBy(call) ==
    {<<Flatten(jobs.calls[call].html_content)[n].val[2]>> :
        n \in {x \in 1..Len(Flatten(jobs.calls[call].html_content)) :
                  Flatten(jobs.calls[call].html_content)[x].kind = "img"}}

\* C17: two conversions at the same time share no state, in every
\* interleaving: a call that has ended has the HTML, the counters and the
\* processed-image set of the conversion of its document alone, so an image
\* id emitted for the other document is emitted for it as well; and a call
\* of extract_toc_from_docx that has ended returns what it returns alone,
\* its duplicate-text set holding the texts of its own document only.
C17_NoSharedState ==
    \A call \in Calls :
        /\ (jobs.kind = "convert" /\ jobs.calls[call].pc = "done") =>
               LET alone == ConvertedAlone(Started(NewConverter, jobs.calls[call].package),
                                           jobs.calls[call].package, 1)
               IN  /\ jobs.calls[call].html_content = alone.html_content
                   /\ jobs.converters[call].stats = alone.stats
                   /\ jobs.converters[call].processed_image_ids = alone.processed_image_ids
                   /\ EmittedBy(call) = alone.processed_image_ids
        /\ (jobs.kind = "extract" /\ jobs.calls[call].locals.pc = "done") =>
               LET alone == ExtractedAlone(TocLocals, jobs.calls[call].package)
               IN  /\ jobs.calls[call].locals.toc_items = alone.toc_items
                   /\ jobs.calls[call].locals.chapter_texts = alone.chapter_texts

\* two conversions of documents with the same image id have ended, and the
\* HTML of each has the image
C17_Witness ==
    /\ jobs.kind = "convert"
    /\ \A call \in Calls :
           /\ jobs.calls[call].pc = "done"
           /\ jobs.calls[call].package.body = <<B_RunImage>>
           /\ EmittedBy(call) = {Rid1}
           /\ jobs.converters[call].stats.images = 1

---------------------------------------------------------------------------
(* The heading test of the main pass, lines 199-249, on one paragraph.     *)

Heading10 == <<"H", "e", "a", "d", "i", "n", "g", " ", "1", "0">>

\* "标题 3"
BiaoTi3 == <<"BIAO", "TI", " ", "3">>

\* "heading 2": line 204 compares with 'Heading' as it is written
LowerHeading2 == <<"h", "e", "a", "d", "i", "n", "g", " ", "2">>

\* a run of 16pt that is not bold
LargeLightRun == [bold |-> FALSE, size |-> 16]

\* paragraph.style.name
LevelStyles == {Heading1, Heading2, HeadingNoLevel, Heading10, BiaoTi3, LowerHeading2, Normal}

\* paragraph.runs
LevelRuns == {<<>>, <<PlainRun>>, <<BoldRun>>, <<PlainRun, LargeRun>>, <<LargeLightRun>>}

\* paragraph.text: "第一章 绪论", "第二章", "第一章：总则", "1. 绪论", "一、绪论",
\* "1.1 背景", "1.1.1 内容", "第一节 背景", "研究背景", "1.1背景", " 第3章 "
LevelTexts ==
    {<<"DI", "YI", "ZHANG", " ", "XU", "LUN">>,
     <<"DI", "ER", "ZHANG">>,
     <<"DI", "YI", "ZHANG", "FWCOLON", "ZONG", "ZE">>,
     <<"1", ".", " ", "XU", "LUN">>,
     <<"YI", "DUN", "XU", "LUN">>,
     <<"1", ".", "1", " ", "BEI", "JING">>,
     <<"1", ".", "1", ".", "1", " ", "NEI", "RONG">>,
     <<"DI", "YI", "JIE", " ", "BEI", "JING">>,
     <<"YAN1", "JIU1", "BEI", "JING">>,
     <<"1", ".", "1", "BEI", "JING">>,
     <<" ", "DI", "3", "ZHANG", " ">>}

\* the paragraph the loop of line 194 is at, before line 199
HeadInit ==
    /\ head \in {[pc |-> "test", paragraph |-> Para(t, s, r), is_heading |-> FALSE, level |-> 0] :
                    t \in LevelTexts, s \in LevelStyles, r \in LevelRuns}
    /\ doc = Idle
    /\ toc = Idle
    /\ std = Idle
    /\ tex = Idle
    /\ pkg = Idle
    /\ conv = Idle
    /\ math = Idle
    /\ jobs = Idle
    /\ session = Idle
    /\ calls = Idle

\* lines 199-249
TestHeading ==
    /\ head.pc = "test"
    /\ head' = [head EXCEPT !.pc = "tested",
                            !.is_heading = HeadingLevel(head.paragraph).is_heading,
                            !.level = HeadingLevel(head.paragraph).level]
    /\ UNCHANGED <<doc, toc, std, tex, pkg, conv, math, jobs, session, calls>>

HeadNext == TestHeading

SpecHead == HeadInit /\ [][HeadNext]_vars

---------------------------------------------------------------------------
(* Properties of the heading test, checked under SpecHead.                 *)

\* the level each heading style name gives: the number at its first digit,
\* 1 without a digit
LevelOfStyle ==
    (Heading1 :> 1) @@ (Heading2 :> 2) @@ (HeadingNoLevel :> 1) @@ (Heading10 :> 10)
        @@ (BiaoTi3 :> 3)

\* the level each text gives by the first entry of the pattern list it
\* matches: chapter numerals, 'N.M title', 'N.M.K title', named section
LevelOfText ==
    (<<"DI", "YI", "ZHANG", " ", "XU", "LUN">> :> 1)
        @@ (<<"DI", "ER", "ZHANG">> :> 1)
        @@ (<<"DI", "YI", "ZHANG", "FWCOLON", "ZONG", "ZE">> :> 1)
        @@ (<<"1", ".", " ", "XU", "LUN">> :> 1)
        @@ (<<"YI", "DUN", "XU", "LUN">> :> 1)
        @@ (<<"DI", "3", "ZHANG">> :> 1)
        @@ (<<"1", ".", "1", " ", "BEI", "JING">> :> 2)
        @@ (<<"1", ".", "1", ".", "1", " ", "NEI", "RONG">> :> 3)
        @@ (<<"DI", "YI", "JIE", " ", "BEI", "JING">> :> 2)

\* a run of the paragraph is bold
SomeRunBold(para) == \E k \in 1..Len(para.runs) : para.runs[k].bold

\* a run of the paragraph is larger than 14pt
SomeRunLarge(para) == \E k \in 1..Len(para.runs) : para.runs[k].size > 14

\* C21: the heading level is decided in priority order: a heading style
\* name gives the level from the number in the name (1 without one),
\* whatever the runs and the text; otherwise bold or large runs give 1 with
\* a run above 14pt and 2 without; otherwise the first matching text pattern
\* gives the level; a paragraph matching none is no heading.
C21_LevelPriority ==
    head.pc = "tested" =>
        LET para == head.paragraph
            bystyle == para.style \in DOMAIN LevelOfStyle
            byruns == SomeRunBold(para) \/ SomeRunLarge(para)
            bytext == StrippedText(para) \in DOMAIN LevelOfText
        IN  /\ bystyle => (head.is_heading /\ head.level = LevelOfStyle[para.style])
            /\ (~bystyle /\ byruns) =>
                   (head.is_heading /\ head.level = IF SomeRunLarge(para) THEN 1 ELSE 2)
            /\ (~bystyle /\ ~byruns /\ bytext) =>
                   (head.is_heading /\ head.level = LevelOfText[StrippedText(para)])
            /\ (~bystyle /\ ~byruns /\ ~bytext) => (~head.is_heading /\ head.level = 0)

\* "1.1.1 内容" in Heading 2 with a run of 16pt is of level 2
C21_Witness ==
    /\ head.pc = "tested"
    /\ head.paragraph =
           Para(<<"1", ".", "1", ".", "1", " ", "NEI", "RONG">>, Heading2, <<PlainRun, LargeRun>>)
    /\ head.is_heading
    /\ head.level = 2

---------------------------------------------------------------------------
(* Further properties of extract_toc_from_docx, checked under SpecToc.     *)

\* the keyword scan is adding a node
FallbackAdds == toc.pc = "fallback" /\ toc'.main_chapters # toc.main_chapters

\* no contents marker was found, or no body start
DetectionFailed == ~toc.found_toc \/ toc.content_start_index = -1

\* the index the keyword scan starts at
FallbackStart == IF toc.content_start_index # -1 THEN toc.content_start_index ELSE 0

\* node is of level 1, from one of the first 100 paragraphs from the start
\* index, from a line of 4 to 100 characters that holds a section keyword
\* and is bold or shorter than 30 characters
KeywordNode(node) ==
    LET para == ParaAt(node.index)
        line == StrippedText(para)
    IN  /\ node.level = 1
        /\ node.children = <<>>
        /\ node.index >= FallbackStart
        /\ node.index < FallbackStart + 100
        /\ node.original_text = line
        /\ Len(line) >= 4
        /\ Len(line) <= 100
        /\ \E keyword \in chapter_keywords : Contains(line, keyword)
        /\ (SomeRunBold(para) \/ Len(line) < 30)

\* the keyword scan has read at most the first 100 paragraphs from its
\* start index
WithinWindow ==
    toc.pc = "fallback" =>
        /\ toc.start_index = FallbackStart
        /\ toc.i >= toc.start_index
        /\ toc.i <= toc.start_index + 100

\* C22 as stated: the keyword scan adds nodes only when TOC-marker or
\* body-start detection failed and zero chapter nodes resulted; it examines
\* at most the first 100 paragraphs from its start index, and every node it
\* adds is level 1, from a line of 4 to 100 characters with a section
\* keyword, and bold or shorter than 30 characters.
C22_AsStated ==
    /\ [][FallbackAdds =>
             /\ DetectionFailed
             /\ toc.sub_chapters = <<>>
             /\ toc'.main_chapters = Append(toc.main_chapters, toc'.main_chapters[Len(toc'.main_chapters)])
             /\ KeywordNode(toc'.main_chapters[Len(toc'.main_chapters)])]_vars
    /\ [][(toc.pc = "check" /\ toc'.pc = "fallback") => toc.main_chapters = <<>>]_vars
    /\ []WithinWindow

\* C22 amended: the keyword scan runs only when the main pass left no
\* level-1 chapter node, whether detection failed or not and whether the
\* main pass took subchapters or not; chapters are added by the main pass
\* and by the keyword scan only; the rest as stated.
C22_FallbackScan ==
    /\ [][FallbackAdds =>
             /\ toc'.main_chapters = Append(toc.main_chapters, toc'.main_chapters[Len(toc'.main_chapters)])
             /\ toc'.sub_chapters = toc.sub_chapters
             /\ KeywordNode(toc'.main_chapters[Len(toc'.main_chapters)])]_vars
    /\ [][(toc.pc = "check" /\ toc'.pc = "fallback") => toc.main_chapters = <<>>]_vars
    /\ [][Len(toc'.main_chapters) # Len(toc.main_chapters) => toc.pc \in {"scan2", "fallback"}]_vars
    /\ [](toc.pc = "fallback" => \A k \in 1..Len(toc.main_chapters) : KeywordNode(toc.main_chapters[k]))
    /\ []WithinWindow

\* the body start was found, the main pass took a subchapter and no
\* chapter, and the keyword scan added a chapter
C22_Witness ==
    /\ Returned
    /\ ~DetectionFailed
    /\ toc.sub_chapters # <<>>
    /\ toc.toc_items # <<>>
    /\ \A k \in 1..Len(toc.toc_items) :
           /\ KeywordNode([toc.toc_items[k] EXCEPT !.children = <<>>])
           /\ ~HeadingLevel(ParaAt(toc.toc_items[k].index)).is_heading

\* the keyword scan of the document of 101 paragraphs took the line at
\* index 99 and the bold lines of 30 and of 100 characters, and neither the
\* line at index 100 nor the lines of 3 and 101 characters nor the line of
\* 30 characters that is not bold
WindowUsedUp ==
    /\ Returned
    /\ doc = LongDocument
    /\ {toc.toc_items[k].index : k \in 1..Len(toc.toc_items)} = {2, 3, 99}

\* the places <<k, n>> of the returned tree where node is the n-th child of
\* the k-th chapter
PlacesOf(node) ==
    {<<k, n>> \in (1..Len(toc.toc_items)) \X (1..Len(toc.sub_chapters)) :
        /\ n <= Len(toc.toc_items[k].children)
        /\ toc.toc_items[k].children[n] = node}

\* the number of children in the returned tree
RECURSIVE ChildCount(_)
ChildCount(chapters) ==
    IF chapters = <<>> THEN 0 ELSE Len(chapters[1].children) + ChildCount(Tail(chapters))

\* every child of a chapter has no children, whatever its level
TwoLevels ==
    \A k \in 1..Len(toc.toc_items) :
        \A n \in 1..Len(toc.toc_items[k].children) :
            /\ toc.toc_items[k].children[n].children = <<>>
            /\ toc.toc_items[k].children[n].level # 1

\* every accepted subchapter is in the returned tree once, and the tree has
\* no other children
NoSubchapterLost ==
    /\ \A x \in 1..Len(toc.sub_chapters) : Cardinality(PlacesOf(toc.sub_chapters[x])) = 1
    /\ ChildCount(toc.toc_items) = Len(toc.sub_chapters)

\* C23 as stated: the returned tree has two levels, every child of a
\* chapter having no children; and whenever subchapters were accepted every
\* accepted subchapter is in the returned tree exactly once, under exactly
\* one chapter.
C23_AsStated ==
    Returned =>
        /\ TwoLevels
        /\ toc.sub_chapters # <<>> => NoSubchapterLost

\* C23 amended: the same whenever at least one chapter was accepted; with
\* no chapter the returned tree is empty, whatever subchapters were accepted.
C23_TwoLevelTree ==
    Returned =>
        /\ TwoLevels
        /\ toc.main_chapters # <<>> => NoSubchapterLost
        /\ toc.main_chapters = <<>> => toc.toc_items = <<>>

\* a node of level 3 behind a node of level 2 is a child of the chapter
\* before both, next to the node of level 2
C23_Witness ==
    /\ Returned
    /\ toc.toc_items # <<>>
    /\ Len(toc.toc_items[1].children) = 2
    /\ toc.toc_items[1].children[1].level = 2
    /\ toc.toc_items[1].children[2].level = 3
    /\ toc.toc_items[1].children[1].index < toc.toc_items[1].children[2].index
    /\ NoSubchapterLost

\* the nodes of the returned tree in one sequence, every chapter with its
\* children behind it
RECURSIVE TreeNodes(_)
TreeNodes(chapters) ==
    IF chapters = <<>> THEN <<>>
    ELSE <<chapters[1]>> \o chapters[1].children \o TreeNodes(Tail(chapters))

\* the nodes of q are strictly increasing by index
IncreasingByIndex(q) == \A x \in 1..Len(q), y \in 1..Len(q) : x < y => q[x].index < q[y].index

\* the id as the string f"section-{i}-{safe_text}" is read: the index, then
\* the sanitised first five characters
IdOf(node) == <<node.index, WordCharsOf(Take(StrippedText(ParaAt(node.index)), 5))>>

\* C24: in every result each paragraph index yields at most one node, so
\* node indices and node ids are pairwise distinct; the chapter list and
\* each children list are strictly increasing by index; and every node of
\* the main pass has an index of at least the recorded body-start index,
\* which is behind the TOC region.
C24_DistinctIncreasing ==
    /\ Returned =>
           LET nodes == TreeNodes(toc.toc_items)
           IN  /\ \A x \in 1..Len(nodes), y \in 1..Len(nodes) :
                      x # y => (nodes[x].index # nodes[y].index /\ nodes[x].id # nodes[y].id)
               /\ \A x \in 1..Len(nodes) :
                      nodes[x].index \in ParaIndexes /\ nodes[x].id = IdOf(nodes[x])
               /\ IncreasingByIndex(toc.toc_items)
               /\ \A k \in 1..Len(toc.toc_items) : IncreasingByIndex(toc.toc_items[k].children)
    /\ \A x \in 1..Len(MainPassNodes) :
           /\ toc.content_start_index # -1
           /\ MainPassNodes[x].index >= toc.content_start_index
           /\ MainPassNodes[x].index > toc.toc_end_index
           /\ toc.toc_start_index <= toc.toc_end_index

\* a heading between the contents marker and the body start is no node of
\* the result, which has a chapter
C24_Witness ==
    /\ Returned
    /\ toc.toc_items # <<>>
    /\ \E i \in ParaIndexes :
           /\ toc.toc_start_index < i /\ i < toc.content_start_index
           /\ MainCandidate(i)
           /\ \A x \in 1..Len(TreeNodes(toc.toc_items)) : TreeNodes(toc.toc_items)[x].index # i

---------------------------------------------------------------------------
(* The calls of convert_element, lines 72-124: which elements the          *)
(* converter of an element calls convert_element on, and the calls that    *)
(* are open at a time.                                                     *)

\* the children of element with one of the tags, in document order
RECURSIVE ChildrenTagged(_, _)
ChildrenTagged(children, tags) ==
    IF children = <<>> THEN <<>>
    ELSE (IF Head(children).tag \in tags THEN <<Head(children)>> ELSE <<>>)
             \o ChildrenTagged(Tail(children), tags)

\* convert_matrix, lines 402-408: every cell of every mr child
RECURSIVE MatrixCells(_)
MatrixCells(children) ==
    IF children = <<>> THEN <<>>
    ELSE (IF Head(children).tag = "mr" THEN Head(children).children ELSE <<>>)
             \o MatrixCells(Tail(children))

\* the elements the converter of element hands to convert_element, in the
\* order of the calls (one entry of the dispatch table of lines 79-124 each)
CallsOf(element) ==
    CASE element.tag \in {"oMath", "r"} -> element.children
      [] element.tag = "f" -> ChildrenTagged(element.children, {"num", "den"})
      [] element.tag = "sSup" -> ChildrenTagged(element.children, {"e", "sup"})
      [] element.tag = "sSub" -> ChildrenTagged(element.children, {"e", "sub"})
      [] element.tag = "sSubSup" -> ChildrenTagged(element.children, {"e", "sub", "sup"})
      [] element.tag = "rad" -> ChildrenTagged(element.children, {"deg", "e"})
      [] element.tag = "nary" -> ChildrenTagged(element.children, {"sub", "sup", "e"})
      [] element.tag = "d" -> ChildrenTagged(element.children, {"e"})
      [] element.tag = "m" -> MatrixCells(element.children)
      [] element.tag = "func" -> ChildrenTagged(element.children, {"fName", "e"})
      [] element.tag \in {"acc", "bar", "borderBox", "groupChr"} ->
             ChildrenTagged(element.children, {"e"})
      [] element.tag = "box" -> <<element>>
      [] element.tag \in {"limLow", "limUpp"} -> ChildrenTagged(element.children, {"e", "lim"})
      [] element.tag \in {"t", "sym"} -> <<>>
      [] OTHER -> element.children

\* an element of one kind with one child of each of the tags, every child
\* holding the run x
Compound(tag, parts) ==
    MathNode(tag, <<>>, <<>>,
             [k \in 1..Len(parts) |-> MathNode(parts[k], <<>>, <<>>, <<MathRun(<<"x">>)>>)])

\* one element of every kind of the dispatch table
KindPool ==
    {Compound("f", <<"num", "den">>),
     Compound("sSup", <<"e", "sup">>),
     Compound("sSub", <<"e", "sub">>),
     Compound("sSubSup", <<"e", "sub", "sup">>),
     Compound("rad", <<"degHide", "deg", "e">>),
     Compound("nary", <<"naryPr", "sub", "sup", "e">>),
     Compound("func", <<"fName", "e">>),
     Compound("acc", <<"accPr", "e">>),
     Compound("bar", <<"e">>),
     Compound("box", <<"e">>),
     Compound("borderBox", <<"e">>),
     Compound("groupChr", <<"e">>),
     Compound("limLow", <<"e", "lim">>),
     Compound("limUpp", <<"e", "lim">>),
     Compound("sPre", <<"sub", "sup", "e">>),
     MathNode("m", <<>>, <<>>, <<Compound("mr", <<"e", "e">>), Compound("mr", <<"e", "e">>)>>),
     MathNode("sym", <<>>, <<>>, <<>>),
     MathRun(<<"x">>),
     Delimiter(<<MathNode("begChr", <<>>, <<"[">>, <<>>)>>, <<Expr(<<"y">>), Expr(<<"x">>)>>)}

\* the math elements convert_element is called on: every kind alone, every
\* kind in a fraction behind a run, and the formulas with boxes
CallPool ==
    {OMathOf(<<k>>) : k \in KindPool}
        \cup {OMathOf(<<MathRun(<<"a">>),
                        MathNode("f", <<>>, <<>>,
                                 <<MathNode("num", <<>>, <<>>, <<k>>),
                                   MathNode("den", <<>>, <<>>, <<MathRun(<<"2">>)>>)>>)>>) :
                 k \in KindPool}
        \cup OtherFormulas

\* how many calls of convert_element can be open: the recursion limit of
\* the interpreter
MaxCalls == 8

\* a call of convert_element: its element, and how many of the calls of
\* its converter have been made
Call(element) == [element |-> element, made |-> 0]

CallsInit ==
    /\ calls \in {[pc |-> "run", root |-> e, stack |-> <<Call(e)>>] : e \in CallPool}
    /\ doc = Idle
    /\ toc = Idle
    /\ std = Idle
    /\ tex = Idle
    /\ pkg = Idle
    /\ conv = Idle
    /\ math = Idle
    /\ jobs = Idle
    /\ head = Idle
    /\ session = Idle

\* the call that is running
Running == calls.stack[Len(calls.stack)]

\* the converter of the running call has a call to make
HasCallToMake == calls.pc = "run" /\ Running.made < Len(CallsOf(Running.element))

\* the converter of the running call calls convert_element
EnterCall ==
    /\ HasCallToMake
    /\ Len(calls.stack) < MaxCalls
    /\ calls' = [calls EXCEPT
                    !.stack = Append([@ EXCEPT ![Len(@)].made = @ + 1],
                                     Call(CallsOf(Running.element)[Running.made + 1]))]
    /\ UNCHANGED <<doc, toc, std, tex, pkg, conv, math, jobs, head, session>>

\* the running call returns
ReturnFromCall ==
    /\ calls.pc = "run"
    /\ ~HasCallToMake
    /\ calls' = [calls EXCEPT
                    !.stack = SubSeq(@, 1, Len(@) - 1),
                    !.pc = IF Len(calls.stack) = 1 THEN "returned" ELSE "run"]
    /\ UNCHANGED <<doc, toc, std, tex, pkg, conv, math, jobs, head, session>>

\* the interpreter raises RecursionError for one call too many, and
\* omml_to_latex catches it (lines 612-614)
RaiseRecursionError ==
    /\ HasCallToMake
    /\ Len(calls.stack) = MaxCalls
    /\ calls' = [calls EXCEPT !.stack = <<>>, !.pc = "except"]
    /\ UNCHANGED <<doc, toc, std, tex, pkg, conv, math, jobs, head, session>>

CallsNext ==
    \/ EnterCall
    \/ ReturnFromCall
    \/ RaiseRecursionError

SpecCalls == CallsInit /\ [][CallsNext]_vars

---------------------------------------------------------------------------
(* Properties of the calls of convert_element, checked under SpecCalls.    *)

\* the elements below element
RECURSIVE Descendants(_)
Descendants(element) ==
    UNION {{element.children[k]} \cup Descendants(element.children[k]) :
              k \in 1..Len(element.children)}

\* the number of elements on the longest path from element down
RECURSIVE DepthOf(_)
DepthOf(element) ==
    IF element.children = <<>> THEN 1
    ELSE 1 + SetMax({DepthOf(element.children[k]) : k \in 1..Len(element.children)})

\* a box is element or below it
HasBox(element) == \E e \in {element} \cup Descendants(element) : e.tag = "box"

\* C25 as stated: convert_element terminates on every finite math tree, for
\* every node kind of the dispatch table, box included: every call is made
\* on a strict descendant of the element of the call that makes it, so no
\* more calls are open than the tree is deep.
C25_AsStated ==
    /\ calls.pc # "except"
    /\ \A k \in 2..Len(calls.stack) :
           calls.stack[k].element \in Descendants(calls.stack[k - 1].element)
    /\ Len(calls.stack) <= DepthOf(calls.root)

\* the same for the trees without a box
StrictDescentWithoutBox == HasBox(calls.root) \/ C25_AsStated

---------------------------------------------------------------------------
(* Limit nodes, checked under SpecOmml.                                    *)

\* the formula is one limit node
IsLimitFormula == math.omml_element \in LimitFormulas

\* the limit node of a limit formula, the text of its base and of its bound
LimitNode == math.omml_element.children[1]

BaseOfLimit == LimitNode.children[1].children[1].children[1].text

BoundOfLimit ==
    IF LimitNode.children[2].children = <<>> THEN <<>>
    ELSE LimitNode.children[2].children[1].children[1].text

\* C26 as stated: a limit node whose base text is exactly max or min
\* converts to \operatorname*{max}_{bound} or \operatorname*{min}_{bound},
\* for lower limits and for upper limits alike; any other lower limit
\* converts to \underset{bound}{base} and any other upper limit to
\* \overset{bound}{base}.
C26_AsStated ==
    (MathReturned /\ IsLimitFormula) =>
        math.latex =
            (IF BaseOfLimit \in LimitOperators
             THEN OperatorWithLimit(BaseOfLimit, BoundOfLimit)
             ELSE IF LimitNode.tag = "limLow" THEN Underset(BoundOfLimit, BaseOfLimit)
             ELSE Overset(BoundOfLimit, BaseOfLimit))

\* C26: a lower limit whose base text is max or min, braces around it
\* ignored, and whose bound is not empty converts to
\* \operatorname*{max}_{bound} or \operatorname*{min}_{bound}; any other
\* lower limit converts to \underset{bound}{base}; every upper limit, one
\* with base max or min included, converts to \overset{bound}{base}.
C26_LimitForms ==
    (MathReturned /\ IsLimitFormula) =>
        math.latex =
            (IF LimitNode.tag = "limUpp" THEN Overset(BoundOfLimit, BaseOfLimit)
             ELSE IF StripBraces(BaseOfLimit) \in LimitOperators /\ BoundOfLimit # <<>>
             THEN OperatorWithLimit(StripBraces(BaseOfLimit), BoundOfLimit)
             ELSE Underset(BoundOfLimit, BaseOfLimit))

\* an upper limit with base max and a bound has been converted
C26_Witness ==
    /\ MathReturned
    /\ IsLimitFormula
    /\ LimitNode.tag = "limUpp"
    /\ BaseOfLimit = <<"m", "a", "x">>
    /\ BoundOfLimit = <<"x">>
    /\ math.latex = Overset(<<"x">>, <<"m", "a", "x">>)

---------------------------------------------------------------------------
(* The delimiters of convert_delimiter, checked under SpecOmml.            *)

\* s ends with p
EndsWith(s, p) == Len(p) <= Len(s) /\ SubSeq(s, Len(s) - Len(p) + 1, Len(s)) = p

\* the formula is one delimiter node
IsDelimiterFormula ==
    /\ Len(math.omml_element.children) = 1
    /\ math.omml_element.children[1].tag = "d"

\* the properties of the delimiter node
PropsOfDelimiter ==
    LET d == math.omml_element.children[1]
    IN  IF d.children # <<>> /\ d.children[1].tag = "dPr" THEN d.children[1].children
        ELSE <<>>

\* the property name is given with the value val
GivenAs(name, val) ==
    \E k \in 1..Len(PropsOfDelimiter) :
        PropsOfDelimiter[k].tag = name /\ PropsOfDelimiter[k].val = val

\* C27 as stated: convert_delimiter always returns \left<L> ... \right<R>
\* with a non-empty delimiter after \right: a delimiter node whose end
\* character is given as the empty string renders \right. , and '{' or '}'
\* used as a delimiter character renders as \{ or \}.
C27_AsStated ==
    (math.pc = "converted" /\ IsDelimiterFormula) =>
        /\ StartsWith(math.result, Left)
        /\ ~EndsWith(math.result, Right)
        /\ GivenAs("endChr", <<>>) => EndsWith(math.result, RightDot)
        /\ \A ch \in {<<"{">>, <<"}">>} :
               /\ GivenAs("begChr", ch) => StartsWith(math.result, Left \o <<"\\">> \o ch)
               /\ GivenAs("endChr", ch) => EndsWith(math.result, Right \o <<"\\">> \o ch)

---------------------------------------------------------------------------
(* The commands of a formula in the clean-up, checked under SpecOmml.      *)

\* C28 as stated: add_spaces_after_latex_commands inserts a space only
\* after a complete known command that is directly followed by an
\* alphanumeric character, and never inside a longer command that has a
\* shorter known command as prefix: every occurrence of a known command in
\* the input (for example \subseteq, \supseteq, \infty, \int) is still
\* present unbroken in the output.
C28_AsStated ==
    (MathReturned /\ ~ConversionRaised) =>
        \A cmd \in {LatexCommands[k] : k \in 1..Len(LatexCommands)}
                       \cup {Infty, <<"\\", "i", "n", "t">>} :
            Count(math.latex, cmd) >= Count(math.result, cmd)

---------------------------------------------------------------------------
(* The session of the application: st.session_state, the page router of    *)
(* app.py and the three pages.  One run of main() is one action, but for   *)
(* the processing page with a file, whose steps are three actions.         *)
(* session.keys holds the attributes st.session_state has; the field of an *)
(* attribute it does not have holds the default.                           *)

Pages == {"upload", "processing", "results"}

\* the documents a user uploads
Files == {<<"a.docx">>, <<"b.docx">>}

\* how many chapters an analysis has at most
MaxChapters == 2

\* the chapter lists of file: n chapters, each known by its file and number
ChapterLists(file) == {[k \in 1..n |-> file \o <<k>>] : n \in 0..MaxChapters}

\* what convert_word_to_html_with_math returns for file: the HTML, or None
\* after an exception
HtmlOf(file) == {None, <<"html of">> \o file}

\* simulate_analysis_with_toc returned None
NoAnalysis == [given |-> FALSE, chapters |-> <<>>]

\* the dictionary of document_processor.py lines 514-520
Analysis(chapters) == [given |-> TRUE, chapters |-> chapters]

\* what simulate_analysis_with_toc returns for file
AnalysisOf(file) == {NoAnalysis} \cup {Analysis(c) : c \in ChapterLists(file)}

\* the attributes init_session_state and reset_session_state set
InitKeys ==
    {"current_page", "uploaded_file", "word_html", "toc_items", "analysis_results",
     "structured_content"}

\* a session without attributes
NewSession ==
    [pc |-> "start", keys |-> {}, current_page |-> "upload", uploaded_file |-> None,
     word_html |-> None, toc_items |-> <<>>, analysis_results |-> <<>>,
     structured_content |-> None, analysis_result |-> NoAnalysis]

\* the sessions a run of main() may find: the new one, and those that hold
\* values written before
Sessions ==
    {NewSession} \cup
    {[NewSession EXCEPT !.keys = InitKeys \cup more, !.current_page = p,
                        !.uploaded_file = f, !.word_html = h, !.toc_items = t,
                        !.analysis_result = a] :
        more \in {{}, {"analysis_result"}}, p \in Pages, f \in {None} \cup Files,
        h \in HtmlOf(<<"a.docx">>), t \in ChapterLists(<<"a.docx">>),
        a \in {NoAnalysis, Analysis(<<<<"a.docx", 1>>>>)}}

\* init_session_state, session_state.py lines 3-26
init_session_state(s) ==
    [s EXCEPT !.keys = @ \cup InitKeys,
              !.current_page = IF "current_page" \in s.keys THEN @ ELSE "upload",
              !.uploaded_file = IF "uploaded_file" \in s.keys THEN @ ELSE None,
              !.word_html = IF "word_html" \in s.keys THEN @ ELSE None,
              !.toc_items = IF "toc_items" \in s.keys THEN @ ELSE <<>>,
              !.analysis_results = IF "analysis_results" \in s.keys THEN @ ELSE <<>>,
              !.structured_content = IF "structured_content" \in s.keys THEN @ ELSE None]

\* reset_session_state, session_state.py lines 28-35
reset_session_state(s) ==
    [s EXCEPT !.keys = @ \cup InitKeys,
              !.current_page = "upload",
              !.uploaded_file = None,
              !.word_html = None,
              !.toc_items = <<>>,
              !.analysis_results = <<>>,
              !.structured_content = None]

PagesInit ==
    /\ session \in {s \in Sessions : "analysis_result" \in s.keys \/ s.analysis_result = NoAnalysis}
    /\ doc = Idle
    /\ toc = Idle
    /\ std = Idle
    /\ tex = Idle
    /\ pkg = Idle
    /\ conv = Idle
    /\ math = Idle
    /\ jobs = Idle
    /\ head = Idle
    /\ calls = Idle

\* no run of main() is under way
BetweenRuns == session.pc \notin {"html", "analysis"}

\* the page main() routes to, app.py lines 19 and 30-36
RoutedTo(page) == BetweenRuns /\ init_session_state(session).current_page = page

\* main() with render_upload_page: the uploader holds uploaded, and the
\* button, shown with a file only, is pressed or not (upload_page.py lines
\* 64-79)
RenderUploadPage ==
    /\ RoutedTo("upload")
    /\ \E uploaded \in {None} \cup Files, pressed \in BOOLEAN :
           session' =
               IF uploaded = None THEN [init_session_state(session) EXCEPT !.pc = "uploaded"]
               ELSE [init_session_state(session) EXCEPT
                        !.pc = "uploaded",
                        !.uploaded_file = uploaded,
                        !.current_page = IF pressed THEN "processing" ELSE @]
    /\ UNCHANGED <<doc, toc, std, tex, pkg, conv, math, jobs, head, calls>>

\* main() with render_processing_page and no file: processing_page.py
\* lines 8-11, st.rerun() ends the run
RedirectToUpload ==
    /\ RoutedTo("processing")
    /\ init_session_state(session).uploaded_file = None
    /\ session' = [init_session_state(session) EXCEPT !.pc = "redirected",
                                                      !.current_page = "upload"]
    /\ UNCHANGED <<doc, toc, std, tex, pkg, conv, math, jobs, head, calls>>

\* main() with render_processing_page and a file, up to the end of step 2:
\* processing_page.py lines 59-63
GenerateHtmlPreview ==
    /\ RoutedTo("processing")
    /\ init_session_state(session).uploaded_file # None
    /\ \E html_content \in HtmlOf(init_session_state(session).uploaded_file) :
           session' = [init_session_state(session) EXCEPT !.pc = "html",
                                                          !.word_html = html_content]
    /\ UNCHANGED <<doc, toc, std, tex, pkg, conv, math, jobs, head, calls>>

\* step 3: processing_page.py lines 64-72
IntegrateAnalysis ==
    /\ session.pc = "html"
    /\ \E analysis_result \in AnalysisOf(session.uploaded_file) :
           session' = [session EXCEPT
                          !.pc = "analysis",
                          !.keys = @ \cup {"analysis_result"},
                          !.analysis_result = analysis_result,
                          !.toc_items = IF analysis_result.given
                                        THEN analysis_result.chapters ELSE @]
    /\ UNCHANGED <<doc, toc, std, tex, pkg, conv, math, jobs, head, calls>>

\* FinishProcessing that goes back to the upload page when the conversion
\* returned None
FinishProcessing_NeedsHtml ==
    /\ session.pc = "analysis"
    /\ session' = [session EXCEPT !.pc = "processed",
                                  !.current_page = IF session.word_html = None THEN "upload"
                                                   ELSE "results"]
    /\ UNCHANGED <<doc, toc, std, tex, pkg, conv, math, jobs, head, calls>>

\* processing_page.py lines 76-78
FinishProcessing ==
    /\ session.pc = "analysis"
    /\ session' = [session EXCEPT !.pc = "processed", !.current_page = "results"]
    /\ UNCHANGED <<doc, toc, std, tex, pkg, conv, math, jobs, head, calls>>

\* main() with render_results_page and the button of line 60 pressed:
\* results_page.py lines 60-63
ReloadPressed ==
    /\ RoutedTo("results")
    /\ session' = [reset_session_state(init_session_state(session)) EXCEPT
                      !.pc = "reloaded", !.current_page = "upload"]
    /\ UNCHANGED <<doc, toc, std, tex, pkg, conv, math, jobs, head, calls>>

\* main() with render_results_page and no button pressed: the page reads
\* the session (results_page.py lines 35-50, 85-104) and writes nothing
ShowResults ==
    /\ RoutedTo("results")
    /\ session' = [init_session_state(session) EXCEPT !.pc = "shown"]
    /\ UNCHANGED <<doc, toc, std, tex, pkg, conv, math, jobs, head, calls>>

PagesNext ==
    \/ RenderUploadPage
    \/ RedirectToUpload
    \/ GenerateHtmlPreview
    \/ IntegrateAnalysis
    \/ FinishProcessing
    \/ ReloadPressed
    \/ ShowResults

SpecPages == PagesInit /\ [][PagesNext]_vars

\* a run of the processing page that has begun goes on to its end
SpecPagesRun ==
    SpecPages /\ WF_vars(IntegrateAnalysis) /\ WF_vars(FinishProcessing)

---------------------------------------------------------------------------
(* Properties of the session.                                              *)

\* the run of the processing page has ended
Processed == session.pc = "processed"

C30_AsStated ==
    session.pc = "reloaded" =>
        /\ session.current_page = "upload"
        /\ session.uploaded_file = None
        /\ session.word_html = None
        /\ session.toc_items = <<>>
        /\ session.analysis_results = <<>>
        /\ "analysis_result" \in session.keys => session.analysis_result = NoAnalysis

\* what reset_session_state does reset
ResetAttributes ==
    session.pc = "reloaded" =>
        /\ session.current_page = "upload"
        /\ session.uploaded_file = None
        /\ session.word_html = None
        /\ session.toc_items = <<>>
        /\ session.analysis_results = <<>>
        /\ session.structured_content = None

=============================================================================
